---- MODULE Spec2Model ----
(***************************************************************************)
(* State-machine model of the change-detection and notification engine of  *)
(* the GitHub -> Telegram bot: the JSON store (bot/services/database.py),  *)
(* the polling loop (bot/services/polling.py) and the webhook receiver     *)
(* (bot/services/webhook.py).                                              *)
(*                                                                         *)
(* Three coroutines share the store: the poll loop ("poll"), one inbound   *)
(* webhook request ("hook") and one chat command ("cmd").  Every _load_db  *)
(* and every _save_db is one atomic step (each holds the module lock for   *)
(* its own duration only); a store operation is therefore a sequence of    *)
(* load / save steps that other coroutines may interleave with.            *)
(***************************************************************************)
EXTENDS Integers, Sequences, FiniteSets, TLC

\* ------------------------------------------------------------ bounds
Repos == {"o/r", "p/q"}
Chats == {1, 2}
MaxCommits == 3          \* commits ever created upstream (SHAs 1..MaxCommits)
MaxStars == 2            \* upstream star counts range over 0..MaxStars
PageSize == 3            \* model size of the fetched commit page (per_page)
RaceCommits == 2         \* MaxCommits of the concurrent scenarios
RaceStars == 1           \* MaxStars of the concurrent scenarios
LoopCommits == 2         \* MaxCommits of the poll-loop scenario
LoopStars == 1           \* MaxStars of the poll-loop scenario
HookCommits == 1         \* MaxCommits of the webhook scenarios
MaxCalls == 2            \* _request calls made through one GitHubClient
MaxRequests == 2         \* HTTP requests of one _request call
MaxChecks == 2           \* repository checks of the poll loop that build a client
OpenIssues == 1          \* open issues of a repository in the poll-loop star scenario

NoSha == 0               \* "last_commit_sha": None (falsy in `not last_commit_sha`)
NoThread == "None"       \* repo_data.get("thread_id") of a record without the key
NoToken == "None"
Absent == 0 - 1          \* None, where the code has an Optional[int]
HashLen == 10            \* characters of a token kept by _get_token_hash
RATE_LIMIT_WITH_TOKEN == 5000
RATE_LIMIT_WITHOUT_TOKEN == 60
RATE_LIMIT_WAIT_THRESHOLD == 300

Procs == {"poll", "hook", "cmd"}

VARIABLES
    db,        \* content of data/database.json: repositories (ordered) + statistics
    upstream,  \* GitHub: per repository the commit history (newest first) and stars
    nextSha,   \* next fresh commit SHA upstream
    lim,       \* the scenario: what the environment does in this run (never changes)
    poll,      \* locals of PollingService._check_all_repositories and callees
    hook,      \* locals of handle_webhook and callees
    txn,       \* per coroutine: the store operation in progress
    sent,      \* per producer: the sink calls of the event it dispatched last
    cmdResult, \* what the chat-layer store operation returned, until its caller resumes
    hist,      \* ghost: which commits poll batches carried, per-repository tracking
    now,       \* int(time.time())
    pool,      \* the TokenManager: tokens, current_index, token_stats
    recorded,  \* ghost: per configured token, what update_token_stats was called with
    selected,  \* what get_available_token returned last, until the pool or the clock moves
    client     \* the GitHubClient and the _request call it is making

storeVars == <<db, upstream, nextSha, lim, poll, hook, txn, sent, cmdResult, hist>>

apiVars == <<now, pool, recorded, selected, client>>

vars == <<storeVars, apiVars>>

\* ------------------------------------------------------------ helpers
Min(a, b) == IF a < b THEN a ELSE b

Range(s) == {s[i] : i \in 1..Len(s)}

\* ------------------------------------------------------------ database.py
get_default_events ==
    [commits |-> FALSE, forks |-> FALSE, watch |-> FALSE,
     issues |-> [opened |-> FALSE, closed |-> FALSE],
     issue_comments |-> [created |-> FALSE, deleted |-> FALSE],
     pull_requests |-> [opened |-> FALSE, closed |-> FALSE, synchronize |-> FALSE],
     pull_request_comments |-> [created |-> FALSE, deleted |-> FALSE],
     releases |-> [published |-> FALSE, released |-> FALSE]]

\* keys of `events` whose value is a dict
GroupKeys == {"issues", "issue_comments", "pull_requests", "pull_request_comments", "releases"}

\* f"{repo_key}:{chat_id}"
_get_repo_storage_key(repo_key, chat_id) == <<repo_key, chat_id>>

StorageKey(rec) == _get_repo_storage_key(rec.repo_key, rec.chat_id)

StorageKeys(repositories) == {StorageKey(repositories[i]) : i \in 1..Len(repositories)}

EmptyDb == [repositories |-> <<>>, statistics |-> <<>>]

DefaultStatistics == ("stars" :> 0) @@ ("issues" :> 0)

NewRecord(repo_key, chat_id, github_token) ==
    [repo_key |-> repo_key, chat_id |-> chat_id, events |-> get_default_events,
     last_commit_sha |-> NoSha, last_star_count |-> 0, github_token |-> github_token]

\* no test of `storage_key in db["repositories"]`: the record is always written
AddUnchecked(d, repo_key, chat_id) == TRUE

\* add_repository between its load and its save; d is the loaded store
add_repository_ok(d, repo_key, chat_id) ==
    _get_repo_storage_key(repo_key, chat_id) \notin StorageKeys(d.repositories)

add_repository(d, repo_key, chat_id, github_token) ==
    [repositories |-> Append(d.repositories, NewRecord(repo_key, chat_id, github_token)),
     statistics |-> IF repo_key \in DOMAIN d.statistics
                    THEN d.statistics
                    ELSE (repo_key :> DefaultStatistics) @@ d.statistics]

remove_repository_ok(d, repo_key, chat_id) ==
    _get_repo_storage_key(repo_key, chat_id) \in StorageKeys(d.repositories)

\* a removal that also drops the statistics of a repository left without subscriber
RemoveWithStatistics(d, repo_key, chat_id) ==
    LET left == SelectSeq(d.repositories,
                          LAMBDA rec : StorageKey(rec) # _get_repo_storage_key(repo_key, chat_id))
    IN [repositories |-> left,
        statistics |-> IF \E i \in 1..Len(left) : left[i].repo_key = repo_key
                       THEN d.statistics
                       ELSE [k \in DOMAIN d.statistics \ {repo_key} |-> d.statistics[k]]]

\* `del db["repositories"][storage_key]`; the statistics are kept
remove_repository(d, repo_key, chat_id) ==
    [d EXCEPT !.repositories =
        SelectSeq(d.repositories,
                  LAMBDA rec : StorageKey(rec) # _get_repo_storage_key(repo_key, chat_id))]

\* update_event_status: the dotted path is given split into its parts
EventPathOk(events, path) ==
    \/ Len(path) = 1 /\ path[1] \in DOMAIN events
    \/ /\ Len(path) = 2
       /\ path[1] \in DOMAIN events
       /\ path[1] \in GroupKeys
       /\ path[2] \in DOMAIN events[path[1]]

SetEvent(events, path, status) ==
    IF Len(path) = 1
    THEN [events EXCEPT ![path[1]] = status]
    ELSE [events EXCEPT ![path[1]][path[2]] = status]

update_event_status_ok(d, repo_key, chat_id, path) ==
    /\ _get_repo_storage_key(repo_key, chat_id) \in StorageKeys(d.repositories)
    /\ \A i \in 1..Len(d.repositories) :
          StorageKey(d.repositories[i]) = _get_repo_storage_key(repo_key, chat_id)
              => EventPathOk(d.repositories[i].events, path)

update_event_status(d, repo_key, chat_id, path, status) ==
    [d EXCEPT !.repositories =
        [i \in 1..Len(d.repositories) |->
            IF StorageKey(d.repositories[i]) = _get_repo_storage_key(repo_key, chat_id)
            THEN [d.repositories[i] EXCEPT !.events = SetEvent(@, path, status)]
            ELSE d.repositories[i]]]

\* get_repositories_by_repo_key: the records of one repository, in store order
get_repositories_by_repo_key(d, repo_key) ==
    SelectSeq(d.repositories, LAMBDA rec : rec.repo_key = repo_key)

\* update_last_commit_sha: d from the first load, keys from the second
update_last_commit_sha(d, keys, commit_sha) ==
    [d EXCEPT !.repositories =
        [i \in 1..Len(d.repositories) |->
            IF StorageKey(d.repositories[i]) \in keys
            THEN [d.repositories[i] EXCEPT !.last_commit_sha = commit_sha]
            ELSE d.repositories[i]]]

\* update_last_star_count: d from the first load, keys from the second
update_last_star_count(d, keys, star_count) ==
    [d EXCEPT !.repositories =
        [i \in 1..Len(d.repositories) |->
            IF StorageKey(d.repositories[i]) \in keys
            THEN [d.repositories[i] EXCEPT !.last_star_count = star_count]
            ELSE d.repositories[i]]]

\* update_statistics: dict.update of the (possibly new, empty) entry with stats
update_statistics(d, repo_key, stats) ==
    [d EXCEPT !.statistics =
        (repo_key :> (stats @@ (IF repo_key \in DOMAIN d.statistics
                                THEN d.statistics[repo_key] ELSE <<>>)))
        @@ d.statistics]

\* ------------------------------------------------------------ store operations in progress
NoTxn == [stage |-> "none", op |-> "none", repo |-> "", chat |-> 0, num |-> 0,
          path |-> <<>>, status |-> FALSE, count |-> 0, db |-> EmptyDb]

BeginTxn(op, repo, chat, num, path, status) ==
    [stage |-> "load", op |-> op, repo |-> repo, chat |-> chat, num |-> num,
     path |-> path, status |-> status, count |-> 0, db |-> EmptyDb]

\* _get_issues_count: total_count of the Search API result, 0 when _request
\* returned None
_get_issues_count(result) == IF result = Absent THEN 0 ELSE result

\* the stats dict handed to update_statistics: {} when get_repository_info
\* failed in get_statistics, else the star count of the repository and its
\* issue count (t.count is what the Search API request came to)
StatsArg(t) ==
    IF t.status THEN ("stars" :> t.num) @@ ("issues" :> _get_issues_count(t.count))
    ELSE <<>>

\* the operation after `db = await _load_db()` returned d: the early return, or the
\* store mutated in memory and waiting for _save_db (or for the second load)
AfterLoad(t, d) ==
    CASE t.op = "add" ->
            IF add_repository_ok(d, t.repo, t.chat)
            THEN [t EXCEPT !.stage = "save",
                           !.db = add_repository(d, t.repo, t.chat, NoToken)]
            ELSE NoTxn
      [] t.op = "remove" ->
            IF remove_repository_ok(d, t.repo, t.chat)
            THEN [t EXCEPT !.stage = "save", !.db = remove_repository(d, t.repo, t.chat)]
            ELSE NoTxn
      [] t.op = "toggle" ->
            IF update_event_status_ok(d, t.repo, t.chat, t.path)
            THEN [t EXCEPT !.stage = "save",
                           !.db = update_event_status(d, t.repo, t.chat, t.path, t.status)]
            ELSE NoTxn
      [] t.op = "stats" ->
            [t EXCEPT !.stage = "save", !.db = update_statistics(d, t.repo, StatsArg(t))]
      [] OTHER -> [t EXCEPT !.stage = "load2", !.db = d]

\* update_last_*: after `repos = await get_repositories_by_repo_key(repo_key)` read d2
AfterLoad2(t, d2) ==
    LET keys == StorageKeys(get_repositories_by_repo_key(d2, t.repo)) IN
    IF t.op = "sha"
    THEN [t EXCEPT !.stage = "save", !.db = update_last_commit_sha(t.db, keys, t.num)]
    ELSE [t EXCEPT !.stage = "save", !.db = update_last_star_count(t.db, keys, t.num)]

\* the same operation as a single atomic read-modify-write of the store d
Atomic(t, d) ==
    LET a == AfterLoad(t, d) IN
    IF a.stage = "none" THEN d
    ELSE IF a.stage = "load2" THEN AfterLoad2(a, d).db
    ELSE a.db

\* one await of a store operation of coroutine p: _load_db, the second load, or _save_db
DbStep(p) ==
    /\ txn[p].stage # "none"
    /\ \/ /\ txn[p].stage = "load"
          /\ txn' = [txn EXCEPT ![p] = AfterLoad(@, db)]
          /\ UNCHANGED db
       \/ /\ txn[p].stage = "load2"
          /\ txn' = [txn EXCEPT ![p] = AfterLoad2(@, db)]
          /\ UNCHANGED db
       \/ /\ txn[p].stage = "save"
          /\ db' = txn[p].db
          /\ txn' = [txn EXCEPT ![p] = NoTxn]

\* the same await when the database file cannot be read or written.  _load_db logs
\* the error and returns an empty store; _save_db raises, its caller logs the
\* error and gives up, and the file, truncated when it was opened for writing, is
\* left as it was or empty
DbFail(p) ==
    /\ lim.io
    /\ txn[p].stage # "none"
    /\ \/ /\ txn[p].stage = "load"
          /\ txn' = [txn EXCEPT ![p] = AfterLoad(@, EmptyDb)]
          /\ UNCHANGED db
       \/ /\ txn[p].stage = "load2"
          /\ txn' = [txn EXCEPT ![p] = AfterLoad2(@, EmptyDb)]
          /\ UNCHANGED db
       \/ /\ txn[p].stage = "save"
          /\ db' \in {db, EmptyDb}
          /\ txn' = [txn EXCEPT ![p] = NoTxn]

\* ------------------------------------------------------------ scenarios
\* A scenario fixes what the environment of one run does: whether handlers overlap,
\* which (repository, chat) pairs the chat layer subscribes, which preference
\* paths it toggles, which webhook event types arrive, how many commits and stars
\* the upstream repositories get and whether a branch is force-pushed; web tells
\* which webhook requests arrive ("plain": well-formed and unsigned, no secret
\* configured; "signed": well-formed, a secret configured; "any": every shape),
\* io whether a read or a write of the database file may fail, issues how many
\* open issues the repositories have upstream and branch the name of their
\* default branch (their only branch).
HookTypes == {"push", "watch", "fork", "issues", "issue_comment", "pull_request",
              "pull_request_review_comment", "release", "ping"}

TwoChats == {<<"o/r", 1>>, <<"o/r", 2>>}

OneChat == {<<"o/r", 1>>}

\* serial scenarios: every coroutine runs, one handler at a time, from an empty store
CommitScenario ==
    [serial |-> TRUE, procs |-> Procs, pairs |-> TwoChats, paths |-> {<<"commits">>},
     types |-> {"push"}, commits |-> MaxCommits, stars |-> 0, force |-> TRUE,
     seed |-> EmptyDb, raises |-> FALSE, stop |-> FALSE,
     web |-> "plain", io |-> FALSE, issues |-> 0, branch |-> "main"]

StarScenario ==
    [serial |-> TRUE, procs |-> Procs, pairs |-> TwoChats, paths |-> {<<"watch">>},
     types |-> {"watch"}, commits |-> 0, stars |-> MaxStars, force |-> FALSE,
     seed |-> EmptyDb, raises |-> FALSE, stop |-> FALSE,
     web |-> "plain", io |-> FALSE, issues |-> 0, branch |-> "main"]

EventScenario ==
    [serial |-> TRUE, procs |-> Procs, pairs |-> TwoChats,
     paths |-> {<<"issues", "opened">>, <<"issues", "reopened">>, <<"forks">>},
     types |-> HookTypes \ {"push", "watch"}, commits |-> 0, stars |-> 0,
     force |-> FALSE, seed |-> EmptyDb, raises |-> FALSE, stop |-> FALSE,
     web |-> "plain", io |-> FALSE, issues |-> 0, branch |-> "main"]

SerialScenarios == {CommitScenario, StarScenario, EventScenario}

\* the store after chat 1 subscribed to "o/r" and switched commits and stars on
SeedDb ==
    update_event_status(
        update_event_status(add_repository(EmptyDb, "o/r", 1, NoToken),
                            "o/r", 1, <<"commits">>, TRUE),
        "o/r", 1, <<"watch">>, TRUE)

\* concurrent scenarios: two coroutines at a time, interleaved at every await
RaceCmdHook ==
    [serial |-> FALSE, procs |-> {"cmd", "hook"}, pairs |-> OneChat,
     paths |-> {<<"watch">>}, types |-> {"watch"}, commits |-> 0,
     stars |-> RaceStars, force |-> FALSE, seed |-> EmptyDb, raises |-> FALSE, stop |-> FALSE,
     web |-> "plain", io |-> FALSE, issues |-> 0, branch |-> "main"]

RaceCmdPoll ==
    [serial |-> FALSE, procs |-> {"cmd", "poll"}, pairs |-> OneChat,
     paths |-> {<<"commits">>}, types |-> {}, commits |-> RaceCommits,
     stars |-> 0, force |-> TRUE, seed |-> EmptyDb, raises |-> FALSE, stop |-> FALSE,
     web |-> "plain", io |-> FALSE, issues |-> 0, branch |-> "main"]

RaceHookPoll ==
    [serial |-> FALSE, procs |-> {"hook", "poll"}, pairs |-> OneChat,
     paths |-> {}, types |-> {"watch"}, commits |-> 0,
     stars |-> RaceStars, force |-> FALSE, seed |-> SeedDb, raises |-> FALSE, stop |-> FALSE,
     web |-> "plain", io |-> FALSE, issues |-> 0, branch |-> "main"]

ConcurrentScenarios == {RaceCmdHook, RaceCmdPoll, RaceHookPoll}

\* the store after chat 1 subscribed to "o/r" and to "p/q" and chat 2 to "o/r"
\* (in that order), everyone with commits on and chat 1 with stars of "o/r" on
LoopDb ==
    update_event_status(
        update_event_status(
            update_event_status(
                update_event_status(
                    add_repository(
                        add_repository(add_repository(EmptyDb, "o/r", 1, NoToken),
                                       "p/q", 1, NoToken),
                        "o/r", 2, NoToken),
                    "o/r", 1, <<"commits">>, TRUE),
                "p/q", 1, <<"commits">>, TRUE),
            "o/r", 2, <<"commits">>, TRUE),
        "o/r", 1, <<"watch">>, TRUE)

\* poll-loop scenarios: the poll loop alone over two repositories, one of them
\* with two subscriptions.  In the first, commits are pushed to both, a check or
\* a cycle may raise and the loop may be stopped; in the second, commits and
\* stars come to "o/r", which has an open issue, and nothing raises
LoopScenario ==
    [serial |-> TRUE, procs |-> {"poll"},
     pairs |-> {<<"o/r", 1>>, <<"p/q", 1>>, <<"o/r", 2>>},
     paths |-> {}, types |-> {}, commits |-> LoopCommits, stars |-> 0,
     force |-> FALSE, seed |-> LoopDb, raises |-> TRUE, stop |-> TRUE,
     web |-> "plain", io |-> FALSE, issues |-> 0, branch |-> "main"]

LoopStarScenario ==
    [serial |-> TRUE, procs |-> {"poll"}, pairs |-> TwoChats,
     paths |-> {}, types |-> {}, commits |-> LoopCommits, stars |-> LoopStars,
     force |-> FALSE, seed |-> LoopDb, raises |-> FALSE, stop |-> FALSE,
     web |-> "plain", io |-> FALSE, issues |-> OpenIssues, branch |-> "main"]

\* the same repositories with a default branch called "master"
MasterScenario ==
    [serial |-> TRUE, procs |-> {"poll"}, pairs |-> TwoChats,
     paths |-> {}, types |-> {}, commits |-> LoopCommits, stars |-> 0,
     force |-> FALSE, seed |-> LoopDb, raises |-> FALSE, stop |-> FALSE,
     web |-> "plain", io |-> FALSE, issues |-> 0, branch |-> "master"]

LoopScenarios == {LoopScenario, LoopStarScenario, MasterScenario}

\* the store after chats 1 and 2 subscribed to "o/r" and chat 1 switched commits,
\* stars and opened issues on; nobody is subscribed to "p/q"
HookDb ==
    update_event_status(
        update_event_status(
            update_event_status(
                add_repository(add_repository(EmptyDb, "o/r", 1, NoToken),
                               "o/r", 2, NoToken),
                "o/r", 1, <<"commits">>, TRUE),
            "o/r", 1, <<"watch">>, TRUE),
        "o/r", 1, <<"issues", "opened">>, TRUE)

\* webhook scenarios.  In the first the webhook handler runs alone: requests of
\* every shape arrive for "o/r" and for "p/q", with and without a configured
\* secret, and the database file may fail.  In the second well-formed signed
\* pushes arrive for "o/r" while the chat layer subscribes, unsubscribes and
\* toggles
RequestScenario ==
    [serial |-> TRUE, procs |-> {"hook"},
     pairs |-> {<<"o/r", 1>>, <<"o/r", 2>>, <<"p/q", 1>>},
     paths |-> {}, types |-> {"push", "issues", "ping"}, commits |-> HookCommits,
     stars |-> 0, force |-> FALSE, seed |-> HookDb, raises |-> FALSE, stop |-> FALSE,
     web |-> "any", io |-> TRUE, issues |-> 0, branch |-> "main"]

ReplayScenario ==
    [serial |-> TRUE, procs |-> {"cmd", "hook"}, pairs |-> TwoChats,
     paths |-> {<<"commits">>}, types |-> {"push"},
     commits |-> HookCommits, stars |-> 0,
     force |-> FALSE, seed |-> HookDb, raises |-> FALSE, stop |-> FALSE,
     web |-> "signed", io |-> FALSE, issues |-> 0, branch |-> "main"]

HookScenarios == {RequestScenario, ReplayScenario}

ScenarioRepos == {pair[1] : pair \in lim.pairs}

\* ------------------------------------------------------------ coroutine scheduling
NoEvent == [type |-> "none", action |-> "", repo |-> "", commits |-> <<>>, stars |-> 0]

\* the poll loop between two cycles.  running is PollingService.running; done lists
\* the repositories whose check the current cycle has started, failed those whose
\* check raised, writes counts the saves of the current repository check,
\* cycleFailed tells that the last cycle ended in an exception caught by start()
NoWrites == [sha |-> 0, stars |-> 0, stats |-> 0]

PollIdle == [pc |-> "sleep", repos |-> <<>>, queue |-> <<>>, cur |-> "",
             commits |-> <<>>, new |-> <<>>, stars |-> 0, emitted |-> "none",
             running |-> TRUE, done |-> <<>>, failed |-> {}, writes |-> NoWrites,
             cycleFailed |-> FALSE]

\* the request no handler is working on
NoBody == [kind |-> "object", repository |-> "absent", full_name |-> "absent",
           pad |-> " ",
           payload |-> [action |-> "", repo |-> "", commits |-> <<>>, stars |-> 0]]

NoSignature == [prefix |-> "", mac |-> [key |-> "", msg |-> NoBody],
                hex |-> "lower", ascii |-> TRUE]

NoRequest == [secret |-> "", signature |-> NoSignature, body |-> NoBody]

\* ghost: the last webhook handled to its response (kept in "signed" scenarios):
\* the request, the subscriptions of its repository when it arrived, the chats
\* the sink was invoked for and the status returned
NoPrev == [req |-> NoRequest, type |-> "none", subs |-> <<>>, chats |-> {}, status |-> 0]

\* the webhook handler between two requests.  req is the request being handled,
\* ev its X-GitHub-Event header and decoded payload, verified what
\* verify_webhook_signature made of it, db0 (ghost) the store when it arrived
HookIdle == [pc |-> "idle", ev |-> NoEvent, repos |-> <<>>, status |-> 0,
             req |-> NoRequest, verified |-> "none", db0 |-> EmptyDb, prev |-> NoPrev]

Idle(p) ==
    CASE p = "poll" -> poll.pc \in {"sleep", "exited"}
      [] p = "hook" -> hook.pc = "idle"
      [] OTHER -> txn["cmd"].stage = "none" /\ cmdResult = "none"

\* a handler starts only in a scenario that runs its coroutine and, in a serial
\* scenario, only when no other handler is in progress
MayStart(p) == p \in lim.procs /\ (lim.serial => \A q \in Procs \ {p} : Idle(q))

\* ------------------------------------------------------------ ghost history
\* ghost bookkeeping of the poll path's commit batches, per repository r:
\*   pure[r]     every commit check of r so far that fetched a non-empty page either
\*               set the first baseline or found last_commit_sha in the page, no
\*               push webhook of r was dispatched and its branch was never rewritten
\*   tracked[r]  some commit check of r found last_commit_sha in its page
\*   base[r]     last_commit_sha at the first such check
\*   notified[c] in how many poll batches commit c was carried (counted up to 2,
\*               and only for repositories that are still pure)
HistInit ==
    [notified |-> [c \in 1..MaxCommits |-> 0],
     tracked |-> [r \in Repos |-> FALSE],
     base |-> [r \in Repos |-> NoSha],
     pure |-> [r \in Repos |-> TRUE]]

Impure(h, r) ==
    [h EXCEPT !.pure[r] = FALSE, !.tracked[r] = FALSE, !.base[r] = NoSha,
              !.notified = [c \in DOMAIN @ |-> 0]]

CountUp(h, r, batch) ==
    IF ~h.pure[r] THEN h
    ELSE [h EXCEPT !.notified =
             [c \in DOMAIN @ |-> IF c \in Range(batch) THEN Min(@[c] + 1, 2) ELSE @[c]]]

\* ------------------------------------------------------------ upstream (GitHub)
Push(r) ==
    /\ nextSha <= lim.commits
    /\ upstream' = [upstream EXCEPT ![r].commits = <<nextSha>> \o @]
    /\ nextSha' = nextSha + 1
    /\ UNCHANGED <<db, lim, poll, hook, txn, sent, cmdResult, hist>>
    /\ UNCHANGED apiVars

\* a force-push that drops the newest commit of the default branch
ForcePush(r) ==
    /\ lim.force
    /\ upstream[r].commits # <<>>
    /\ upstream' = [upstream EXCEPT ![r].commits = Tail(@)]
    /\ hist' = Impure(hist, r)
    /\ UNCHANGED <<db, nextSha, lim, poll, hook, txn, sent, cmdResult>>
    /\ UNCHANGED apiVars

Star(r) ==
    /\ upstream[r].stars < lim.stars
    /\ upstream' = [upstream EXCEPT ![r].stars = @ + 1]
    /\ UNCHANGED <<db, nextSha, lim, poll, hook, txn, sent, cmdResult, hist>>
    /\ UNCHANGED apiVars

Unstar(r) ==
    /\ upstream[r].stars > 0
    /\ upstream' = [upstream EXCEPT ![r].stars = @ - 1]
    /\ UNCHANGED <<db, nextSha, lim, poll, hook, txn, sent, cmdResult, hist>>
    /\ UNCHANGED apiVars

\* ------------------------------------------------------------ chat layer -> database.py
CmdStart ==
    /\ Idle("cmd")
    /\ MayStart("cmd")
    /\ \E pair \in lim.pairs :
          \/ txn' = [txn EXCEPT !["cmd"] = BeginTxn("add", pair[1], pair[2], 0, <<>>, FALSE)]
          \/ txn' = [txn EXCEPT !["cmd"] = BeginTxn("remove", pair[1], pair[2], 0, <<>>, FALSE)]
          \/ \E path \in lim.paths, status \in BOOLEAN :
                txn' = [txn EXCEPT !["cmd"] =
                           BeginTxn("toggle", pair[1], pair[2], 0, path, status)]
    /\ UNCHANGED <<db, upstream, nextSha, lim, poll, hook, sent, cmdResult, hist>>
    /\ UNCHANGED apiVars

\* the operation returns True after its save, False on its early return
CmdStep ==
    /\ DbStep("cmd")
    /\ cmdResult' = IF txn'["cmd"].stage # "none" THEN "none"
                    ELSE IF txn["cmd"].stage = "save" THEN "True" ELSE "False"
    /\ UNCHANGED <<upstream, nextSha, lim, poll, hook, sent, hist>>
    /\ UNCHANGED apiVars

\* the caller of the store operation resumes with the result
CmdReturn ==
    /\ cmdResult # "none"
    /\ cmdResult' = "none"
    /\ UNCHANGED <<db, upstream, nextSha, lim, poll, hook, txn, sent, hist>>
    /\ UNCHANGED apiVars

\* ------------------------------------------------------------ notification fan-out
\* repo_data.get("thread_id")
ThreadId(rec) == IF "thread_id" \in DOMAIN rec THEN rec.thread_id ELSE NoThread

\* events_config.get(key, False)
TopPref(events, key) == IF key \in DOMAIN events THEN events[key] ELSE FALSE

\* every action of a group counts as switched on
GroupPrefIgnored(events, group, action) == TRUE

\* events_config.get(group, {}).get(action, False)
GroupPref(events, group, action) ==
    IF group \in DOMAIN events /\ action \in DOMAIN events[group]
    THEN events[group][action] ELSE FALSE

\* one bot.send_message(chat_id=..., text=..., message_thread_id=...); ok: it returned
SinkCall(rec, text, fails) ==
    [chat_id |-> rec.chat_id, thread_id |-> ThreadId(rec), text |-> text,
     ok |-> rec.chat_id \notin fails]

\* format_commit_message(repo, branch, commits): the message lists the commits in order
format_commit_message(repo, commits) == <<"commit", repo, commits>>

\* format_star_message(repo, login, name, total_stars)
format_star_message(repo, total_stars) == <<"star", repo, total_stars>>

\* format_fork_message / format_issue_message / ... (repo, action, payload)
format_event_message(repo, type, action) == <<type, repo, action>>

\* the loop stops at the first send that raises
AbortAtFirstFailure(calls) ==
    IF \A i \in DOMAIN calls : calls[i].ok THEN calls
    ELSE SubSeq(calls, 1, CHOOSE i \in DOMAIN calls :
                             ~calls[i].ok /\ \A j \in 1..(i - 1) : calls[j].ok)

\* `try: await bot.send_message(...) except Exception: logger.error(...)` inside the
\* loop: a send that raises is logged and the loop goes on, so every call is made
CaughtPerSend(calls) == calls

\* `for repo_data in ...: if <enabled>: try: await bot.send_message(...) except: log`
\* enabled: the subscriptions that pass the preference test, in store order;
\* fails: the chats whose send raises.  The result lists the sink calls made.
FanOut(enabled, text, fails) ==
    CaughtPerSend([i \in 1..Len(enabled) |-> SinkCall(enabled[i], text, fails)])

\* ------------------------------------------------------------ polling.py
\* one entry per subscription, a repository key once per subscriber
KeysWithRepeats(repos, seen) == [i \in 1..Len(repos) |-> repos[i].repo_key]

RECURSIVE GroupKeysInOrder(_, _)
\* keys of repos_by_key in dict order: repo_keys by first appearance
GroupKeysInOrder(repos, seen) ==
    IF repos = <<>> THEN <<>>
    ELSE IF Head(repos).repo_key \in seen THEN GroupKeysInOrder(Tail(repos), seen)
    ELSE <<Head(repos).repo_key>>
             \o GroupKeysInOrder(Tail(repos), seen \cup {Head(repos).repo_key})

\* repos_by_key[repo_key]
RepoDataList(repos, repo_key) == SelectSeq(repos, LAMBDA rec : rec.repo_key = repo_key)

\* get_commits(owner, repo, per_page): the newest commits, newest first
Page(commits) == SubSeq(commits, 1, Min(PageSize, Len(commits)))

\* get_commits of a repository whose only branch is default_branch: the request
\* carries params {"sha": branch, "per_page": per_page}; for a branch the
\* repository does not have GitHub answers 404, _request returns None and
\* get_commits []
get_commits(default_branch, commits, branch) ==
    IF branch = default_branch THEN Page(commits) ELSE <<>>

\* the default of the parameter `branch` of get_commits, which the poll loop
\* does not pass
BranchDefault == "main"

\* the scan keeps the commit that equals last_commit_sha before it stops
NewCommitsThroughLast(commits, last_commit_sha) ==
    IF \E i \in DOMAIN commits : commits[i] = last_commit_sha
    THEN SubSeq(commits, 1, CHOOSE i \in DOMAIN commits :
                               /\ commits[i] = last_commit_sha
                               /\ \A j \in 1..(i - 1) : commits[j] # last_commit_sha)
    ELSE commits

RECURSIVE NewCommits(_, _)
\* `for commit in commits: if sha == last_commit_sha: break; new_commits.append(commit)`
NewCommits(commits, last_commit_sha) ==
    IF commits = <<>> THEN <<>>
    ELSE IF Head(commits) = last_commit_sha THEN <<>>
    ELSE <<Head(commits)>> \o NewCommits(Tail(commits), last_commit_sha)

\* no check is treated as the first one
NeverFirstRun(last_commit_sha) == FALSE

\* `if not last_commit_sha`: the first check of a repository
IsFirstRun(last_commit_sha) == last_commit_sha = NoSha

\* the oldest commit of the batch
OldestOfBatch(new_commits) == new_commits[Len(new_commits)]

\* the SHA _check_commits_for_all_users persists after a batch: new_commits[0]
ShaToPersist(new_commits) == new_commits[1]

\* any change of the count, in either direction
StarChanged(current_star_count, last_star_count) == current_star_count # last_star_count

\* `if current_star_count > last_star_count`
StarIncreased(current_star_count, last_star_count) == current_star_count > last_star_count

\* `repos = await get_all_repositories()` and the grouping by repo_key
PollStart ==
    /\ poll.pc = "sleep"
    /\ poll.running
    /\ MayStart("poll")
    /\ LET keys == GroupKeysInOrder(db.repositories, {}) IN
       poll' = IF db.repositories = <<>> THEN PollIdle
               ELSE [PollIdle EXCEPT !.pc = "commits", !.repos = db.repositories,
                                     !.cur = Head(keys), !.queue = Tail(keys),
                                     !.done = <<Head(keys)>>]
    /\ sent' = [sent EXCEPT !["poll"] = <<>>]
    /\ UNCHANGED <<db, upstream, nextSha, lim, hook, txn, cmdResult, hist>>
    /\ UNCHANGED apiVars

\* _check_commits_for_all_users up to the fan-out: get_commits, the first-run
\* branch, the scan for last_commit_sha, get_repository_info
PollFetchCommits ==
    /\ poll.pc = "commits"
    /\ \E ok \in BOOLEAN :
        LET last_commit_sha == RepoDataList(poll.repos, poll.cur)[1].last_commit_sha
            commits == IF ok THEN get_commits(lim.branch, upstream[poll.cur].commits,
                                              BranchDefault)
                       ELSE <<>>
            new_commits == NewCommits(commits, last_commit_sha)
        IN
        IF commits = <<>>
        THEN /\ poll' = [poll EXCEPT !.pc = "stars", !.commits = commits]
             /\ UNCHANGED <<txn, hist>>
        ELSE IF IsFirstRun(last_commit_sha)
        THEN /\ poll' = [poll EXCEPT !.pc = "commits_persist", !.commits = commits]
             /\ txn' = [txn EXCEPT !["poll"] =
                           BeginTxn("sha", poll.cur, 0, commits[1], <<>>, FALSE)]
             /\ hist' = IF hist.tracked[poll.cur] THEN Impure(hist, poll.cur) ELSE hist
        ELSE /\ poll' = [poll EXCEPT !.pc = IF new_commits # <<>> THEN "commits_send"
                                            ELSE "stars",
                                     !.commits = commits, !.new = new_commits]
             /\ hist' = IF last_commit_sha \notin Range(commits)
                        THEN Impure(hist, poll.cur)
                        ELSE IF ~hist.tracked[poll.cur] /\ hist.pure[poll.cur]
                        THEN [hist EXCEPT !.tracked[poll.cur] = TRUE,
                                          !.base[poll.cur] = last_commit_sha]
                        ELSE hist
             /\ UNCHANGED txn
    /\ UNCHANGED <<db, upstream, nextSha, lim, hook, sent, cmdResult>>
    /\ UNCHANGED apiVars

\* the fan-out of the commit batch, then the call of update_last_commit_sha
PollSendCommits ==
    /\ poll.pc = "commits_send"
    /\ \E fails \in SUBSET Chats :
          sent' = [sent EXCEPT !["poll"] =
                      FanOut(SelectSeq(RepoDataList(poll.repos, poll.cur),
                                       LAMBDA rec : TopPref(rec.events, "commits")),
                             format_commit_message(poll.cur, poll.new), fails)]
    /\ poll' = [poll EXCEPT !.pc = "commits_persist", !.emitted = "commit"]
    /\ txn' = [txn EXCEPT !["poll"] =
                  BeginTxn("sha", poll.cur, 0, ShaToPersist(poll.new), <<>>, FALSE)]
    /\ hist' = CountUp(hist, poll.cur, poll.new)
    /\ UNCHANGED <<db, upstream, nextSha, lim, hook, cmdResult>>
    /\ UNCHANGED apiVars

\* _check_stars_for_all_users up to the fan-out: get_star_count (0 when the call
\* fails) and, on an increase, get_stargazers ([] when that call fails)
PollFetchStars ==
    /\ poll.pc = "stars"
    /\ \E ok \in BOOLEAN, stargazers \in BOOLEAN :
        LET last_star_count == RepoDataList(poll.repos, poll.cur)[1].last_star_count
            current_star_count == IF ok THEN upstream[poll.cur].stars ELSE 0
        IN
        IF StarIncreased(current_star_count, last_star_count)
        THEN IF stargazers
             THEN /\ poll' = [poll EXCEPT !.pc = "stars_send", !.emitted = "none",
                                          !.stars = current_star_count]
                  /\ UNCHANGED txn
             ELSE /\ poll' = [poll EXCEPT !.pc = "stars_persist", !.emitted = "none",
                                          !.stars = current_star_count]
                  /\ txn' = [txn EXCEPT !["poll"] =
                                BeginTxn("stars", poll.cur, 0, current_star_count,
                                         <<>>, FALSE)]
        ELSE /\ poll' = [poll EXCEPT !.pc = "stats", !.emitted = "none",
                                     !.stars = current_star_count]
             /\ UNCHANGED txn
    /\ sent' = [sent EXCEPT !["poll"] = <<>>]
    /\ UNCHANGED <<db, upstream, nextSha, lim, hook, cmdResult, hist>>
    /\ UNCHANGED apiVars

\* the fan-out of the star message, then the call of update_last_star_count
PollSendStars ==
    /\ poll.pc = "stars_send"
    /\ \E fails \in SUBSET Chats :
          sent' = [sent EXCEPT !["poll"] =
                      FanOut(SelectSeq(RepoDataList(poll.repos, poll.cur),
                                       LAMBDA rec : TopPref(rec.events, "watch")),
                             format_star_message(poll.cur, poll.stars), fails)]
    /\ poll' = [poll EXCEPT !.pc = "stars_persist", !.emitted = "star"]
    /\ txn' = [txn EXCEPT !["poll"] =
                  BeginTxn("stars", poll.cur, 0, poll.stars, <<>>, FALSE)]
    /\ UNCHANGED <<db, upstream, nextSha, lim, hook, cmdResult, hist>>
    /\ UNCHANGED apiVars

\* the fork / issue / pull-request checks (fetch only), get_statistics ({} when
\* its get_repository_info fails; its Search API requests may fail on their
\* own) and the call of update_statistics
PollFetchStats ==
    /\ poll.pc = "stats"
    /\ \E ok \in BOOLEAN, search \in BOOLEAN :
          txn' = [txn EXCEPT !["poll"] =
                     [BeginTxn("stats", poll.cur, 0,
                               IF ok THEN upstream[poll.cur].stars ELSE 0, <<>>, ok)
                        EXCEPT !.count = IF ~ok THEN 0
                                         ELSE IF search THEN lim.issues ELSE Absent]]
    /\ poll' = [poll EXCEPT !.pc = "stats_persist"]
    /\ UNCHANGED <<db, upstream, nextSha, lim, hook, sent, cmdResult, hist>>
    /\ UNCHANGED apiVars

\* where the cycle continues once the store operation has returned
AfterPersist(pl) ==
    CASE pl.pc = "commits_persist" -> [pl EXCEPT !.pc = "stars"]
      [] pl.pc = "stars_persist" -> [pl EXCEPT !.pc = "stats"]
      [] OTHER -> [pl EXCEPT !.pc = "delay", !.commits = <<>>, !.new = <<>>,
                             !.stars = 0, !.emitted = "none"]

\* the saves of the current repository check, one more of operation op (counted to 2)
CountWrite(writes, op) == [writes EXCEPT ![op] = Min(@ + 1, 2)]

\* one await inside update_last_commit_sha / update_last_star_count / update_statistics
PollPersist ==
    /\ poll.pc \in {"commits_persist", "stars_persist", "stats_persist"}
    /\ DbStep("poll")
    /\ poll' = IF txn'["poll"].stage # "none" THEN poll
               ELSE IF txn["poll"].stage = "save"
               THEN AfterPersist([poll EXCEPT !.writes = CountWrite(@, txn["poll"].op)])
               ELSE AfterPersist(poll)
    /\ sent' = IF poll'.pc = "delay" THEN [sent EXCEPT !["poll"] = <<>>] ELSE sent
    /\ UNCHANGED <<upstream, nextSha, lim, hook, cmdResult, hist>>
    /\ UNCHANGED apiVars

\* `await asyncio.sleep(DELAY_BETWEEN_REPO_CHECKS)` after a repository check, in the
\* try block or in the except block, then the next key of repos_by_key or, after
\* the last one, the return to start() and its `await asyncio.sleep(self.interval)`
PollDelay ==
    /\ poll.pc = "delay"
    /\ poll' = IF poll.queue = <<>> THEN [PollIdle EXCEPT !.running = poll.running]
               ELSE [PollIdle EXCEPT !.pc = "commits", !.repos = poll.repos,
                                     !.cur = Head(poll.queue), !.queue = Tail(poll.queue),
                                     !.done = Append(poll.done, Head(poll.queue)),
                                     !.failed = poll.failed, !.running = poll.running]
    /\ UNCHANGED <<db, upstream, nextSha, lim, hook, txn, sent, cmdResult, hist>>
    /\ UNCHANGED apiVars

\* the exception of a repository check is caught by `except Exception` of
\* start() only: the cycle is over, the loop goes to its sleep
CaughtPerCycle(pl) == [PollIdle EXCEPT !.running = pl.running, !.cycleFailed = TRUE]

\* the exception of a repository check is caught in the except block of the for
\* loop of _check_all_repositories, which sleeps and goes on with the next key
CaughtPerRepository(pl) ==
    [pl EXCEPT !.pc = "delay", !.failed = @ \cup {pl.cur}, !.commits = <<>>,
               !.new = <<>>, !.stars = 0, !.emitted = "none"]

\* a repository check raises: format_commit_message fails on a fetched commit
\* (e.g. one whose "author" is null); `except Exception` in _check_all_repositories
\* logs it, the rest of the check (stars, statistics) is skipped
PollRaise ==
    /\ lim.raises
    /\ poll.pc = "commits_send"
    /\ poll' = CaughtPerRepository(poll)
    /\ UNCHANGED <<db, upstream, nextSha, lim, hook, txn, sent, cmdResult, hist>>
    /\ UNCHANGED apiVars

\* PollingService.stop(): self.running = False
Stop ==
    /\ lim.stop
    /\ poll.running
    /\ poll.pc # "exited"
    /\ poll' = [poll EXCEPT !.running = FALSE]
    /\ UNCHANGED <<db, upstream, nextSha, lim, hook, txn, sent, cmdResult, hist>>
    /\ UNCHANGED apiVars

\* the shutdown of main.py: polling_service.stop() and polling_task.cancel() in
\* one step of the main coroutine; the loop's coroutine ends at the await it is
\* suspended in (taken here at an await that is not inside a store operation)
Shutdown ==
    /\ lim.stop
    /\ poll.pc # "exited"
    /\ txn["poll"].stage = "none"
    /\ poll' = [poll EXCEPT !.pc = "exited", !.running = FALSE]
    /\ UNCHANGED <<db, upstream, nextSha, lim, hook, txn, sent, cmdResult, hist>>
    /\ UNCHANGED apiVars

\* _check_all_repositories raises outside the try block of its for loop (e.g.
\* line 74 on a stored record that is not a dict): `except Exception` in start()
\* logs it and the loop goes to its sleep
PollCycleRaise ==
    /\ lim.raises
    /\ poll.pc = "sleep"
    /\ poll.running
    /\ ~poll.cycleFailed
    /\ poll' = [poll EXCEPT !.cycleFailed = TRUE]
    /\ UNCHANGED <<db, upstream, nextSha, lim, hook, txn, sent, cmdResult, hist>>
    /\ UNCHANGED apiVars

\* `while self.running` is false after the sleep: start() returns
PollExit ==
    /\ poll.pc = "sleep"
    /\ ~poll.running
    /\ poll' = [poll EXCEPT !.pc = "exited"]
    /\ UNCHANGED <<db, upstream, nextSha, lim, hook, txn, sent, cmdResult, hist>>
    /\ UNCHANGED apiVars

\* ------------------------------------------------------------ webhook.py
\* X-GitHub-Event values routed by handle_webhook to a per-action preference group
ActionGroup ==
    [issues |-> "issues", issue_comment |-> "issue_comments",
     pull_request |-> "pull_requests",
     pull_request_review_comment |-> "pull_request_comments",
     release |-> "releases"]

HookActions == {"opened", "reopened"}

\* payload["commits"] of a push: nothing, or up to two adjacent commits of the
\* branch, in either order
PushPayloads(commits) ==
    {<<>>} \cup {<<commits[i]>> : i \in 1..Len(commits)}
           \cup {<<commits[i], commits[i + 1]>> : i \in 1..(Len(commits) - 1)}
           \cup {<<commits[i + 1], commits[i]>> : i \in 1..(Len(commits) - 1)}

HookInputs ==
    {ev \in UNION {
        {[type |-> "push", action |-> "", repo |-> r, commits |-> c, stars |-> 0] :
            c \in PushPayloads(upstream[r].commits)}
        \cup {[type |-> "watch", action |-> "started", repo |-> r, commits |-> <<>>,
               stars |-> n] : n \in 0..lim.stars}
        \cup {[type |-> t, action |-> a, repo |-> r, commits |-> <<>>, stars |-> 0] :
                t \in HookTypes \ {"push", "watch"}, a \in HookActions}
        : r \in ScenarioRepos} : ev.type \in lim.types}

\* a filter that also looks at the last-seen marker: a push whose newest commit the
\* subscription has already seen is not sent again
HookEnabledUnseen(ev, rec) ==
    CASE ev.type = "push" ->
            TopPref(rec.events, "commits") /\ rec.last_commit_sha # ev.commits[1]
      [] ev.type = "watch" -> TopPref(rec.events, "watch")
      [] ev.type = "fork" -> TopPref(rec.events, "forks")
      [] ev.type \in DOMAIN ActionGroup ->
            GroupPref(rec.events, ActionGroup[ev.type], ev.action)
      [] OTHER -> FALSE

\* the preference that decides whether a subscription receives the event
HookEnabled(ev, rec) ==
    CASE ev.type = "push" -> TopPref(rec.events, "commits")
      [] ev.type = "watch" -> TopPref(rec.events, "watch")
      [] ev.type = "fork" -> TopPref(rec.events, "forks")
      [] ev.type \in DOMAIN ActionGroup ->
            GroupPref(rec.events, ActionGroup[ev.type], ev.action)
      [] OTHER -> FALSE

\* the text the handler of the event formats
HookText(ev) ==
    CASE ev.type = "push" -> format_commit_message(ev.repo, ev.commits)
      [] ev.type = "watch" -> format_star_message(ev.repo, ev.stars)
      [] OTHER -> format_event_message(ev.repo, ev.type, ev.action)

\* WEBHOOK_SECRET: "" when the variable is not set
Secrets == {"", "s"}

\* the last byte of the raw body: bodies that differ only in it differ in a single
\* byte and decode to the same payload
Pads == {" ", "\n"}

\* the fields of the payload the handlers read, X-GitHub-Event left out
Payload(ev) == [action |-> ev.action, repo |-> ev.repo, commits |-> ev.commits,
                stars |-> ev.stars]

\* request bodies.  kind: bytes that are not UTF-8, text that is not JSON, a JSON
\* array, or a JSON object; repository: the key is absent, null, a string or an
\* object; full_name: absent from the repository object, "" or the repository
WellFormed(ev, pad) ==
    [kind |-> "object", repository |-> "object", full_name |-> "set", pad |-> pad,
     payload |-> Payload(ev)]

Bodies(ev) ==
    {[kind |-> k, repository |-> "object", full_name |-> "set", pad |-> pad,
      payload |-> Payload(ev)] : k \in {"bytes", "text", "array"}, pad \in Pads}
    \cup {[kind |-> "object", repository |-> r, full_name |-> "set", pad |-> pad,
           payload |-> Payload(ev)] : r \in {"absent", "null", "string"}, pad \in Pads}
    \cup {[kind |-> "object", repository |-> "object", full_name |-> n, pad |-> pad,
           payload |-> Payload(ev)] : n \in {"absent", "empty"}, pad \in Pads}
    \cup {WellFormed(ev, pad) : pad \in Pads}

\* the same body with one byte changed
OtherPad(body) == [body EXCEPT !.pad = CHOOSE pad \in Pads : pad # @]

\* hmac.new(secret.encode(), payload_body, hashlib.sha256).hexdigest(): a keyed
\* hash, taken to be free of collisions: the digest tells the key and the message
hexdigest(secret, payload_body) == [key |-> secret, msg |-> payload_body]

\* f"sha256={expected_signature}": lower-case hexadecimal digits after the prefix
Sha256Header(secret, payload_body) ==
    [prefix |-> "sha256=", mac |-> hexdigest(secret, payload_body),
     hex |-> "lower", ascii |-> TRUE]

\* X-Hub-Signature-256 values ("" when the header is absent): the signature of the
\* body under the secret, of the body with one byte changed, under another
\* secret, without the prefix, in upper case, or with a character outside ASCII
Signatures(secret, body) ==
    {NoSignature,
     Sha256Header(secret, body),
     Sha256Header(secret, OtherPad(body)),
     Sha256Header("t", body),
     [Sha256Header(secret, body) EXCEPT !.prefix = ""],
     [Sha256Header(secret, body) EXCEPT !.hex = "upper"],
     [Sha256Header(secret, body) EXCEPT !.ascii = FALSE]}

\* hmac.compare_digest(a, b) of two str: TypeError unless both are ASCII
compare_digest(a, b) ==
    IF ~a.ascii \/ ~b.ascii THEN "TypeError"
    ELSE IF a = b THEN "True" ELSE "False"

\* a check that looks at the secret only, not at the body that was signed
VerifyKeyOnly(payload_body, signature, secret) ==
    IF secret = "" THEN "True"
    ELSE IF ~signature.ascii THEN "TypeError"
    ELSE IF signature.prefix = "sha256=" /\ signature.hex = "lower"
            /\ signature.mac.key = secret
    THEN "True" ELSE "False"

verify_webhook_signature(payload_body, signature, secret) ==
    IF secret = "" THEN "True"
    ELSE compare_digest(Sha256Header(secret, payload_body), signature)

\* json.loads(payload_body.decode()): the exception raised, or "ok"
json_loads(body) ==
    CASE body.kind = "bytes" -> "UnicodeDecodeError"
      [] body.kind = "text" -> "JSONDecodeError"
      [] OTHER -> "ok"

\* a test that takes any repository object for one that names a repository
FullNameUnchecked(body) ==
    IF body.kind # "object" \/ body.repository \in {"null", "string"}
    THEN [raised |-> TRUE, value |-> ""]
    ELSE IF body.repository = "absent" THEN [raised |-> FALSE, value |-> ""]
    ELSE [raised |-> FALSE, value |-> body.payload.repo]

\* payload.get("repository", {}).get("full_name", ""): AttributeError when the
\* payload or its repository is no dict
repo_full_name(body) ==
    IF body.kind # "object" \/ body.repository \in {"null", "string"}
    THEN [raised |-> TRUE, value |-> ""]
    ELSE IF body.repository = "absent" \/ body.full_name \in {"absent", "empty"}
    THEN [raised |-> FALSE, value |-> ""]
    ELSE [raised |-> FALSE, value |-> body.payload.repo]

\* handle_webhook before its lookup: the status of the response it returns there
\* (500 from `except Exception`), or 0 when it goes on to the lookup
Rejected(req) ==
    LET v == verify_webhook_signature(req.body, req.signature, req.secret) IN
    CASE v = "TypeError" -> 500
      [] v = "False" -> 401
      [] json_loads(req.body) # "ok" -> 500
      [] repo_full_name(req.body).raised -> 500
      [] repo_full_name(req.body).value = "" -> 400
      [] OTHER -> 0

\* the requests that arrive with the event ev
HookRequests(ev) ==
    CASE lim.web = "plain" ->
            {[secret |-> "", signature |-> NoSignature, body |-> WellFormed(ev, " ")]}
      [] lim.web = "signed" ->
            {[secret |-> "s", signature |-> sig, body |-> WellFormed(ev, " ")] :
                sig \in {Sha256Header("s", WellFormed(ev, " ")),
                         Sha256Header("s", WellFormed(ev, "\n"))}}
      [] OTHER ->
            UNION {{[secret |-> s, signature |-> sig, body |-> b] :
                       s \in Secrets, sig \in Signatures("s", b)} : b \in Bodies(ev)}

\* the subscriptions of a repository as the fan-out reads them
Subs(d, repo_key) ==
    LET recs == get_repositories_by_repo_key(d, repo_key) IN
    [i \in 1..Len(recs) |-> [chat_id |-> recs[i].chat_id, events |-> recs[i].events]]

\* handle_webhook up to `repos = await get_repositories_by_repo_key(repo_full_name)`,
\* which returns {} when the database file cannot be read
HookReceive ==
    /\ hook.pc = "idle"
    /\ MayStart("hook")
    /\ \E ev \in HookInputs :
         \E req \in HookRequests(ev) :
           \E repos \in {get_repositories_by_repo_key(db, ev.repo)}
                          \cup (IF lim.io THEN {<<>>} ELSE {}) :
              LET arrived ==
                    [hook EXCEPT !.ev = ev, !.req = req,
                                 !.verified = verify_webhook_signature(
                                                  req.body, req.signature, req.secret),
                                 !.db0 = IF lim.web = "plain" THEN EmptyDb ELSE db]
              IN
              hook' = IF Rejected(req) # 0
                      THEN [arrived EXCEPT !.pc = "respond", !.status = Rejected(req)]
                      ELSE IF repos = <<>>
                      THEN [arrived EXCEPT !.pc = "respond", !.status = 200]
                      ELSE [arrived EXCEPT !.pc = "dispatch", !.repos = repos]
    /\ sent' = [sent EXCEPT !["hook"] = <<>>]
    /\ UNCHANGED <<db, upstream, nextSha, lim, poll, txn, cmdResult, hist>>
    /\ UNCHANGED apiVars

\* handle_<event>_event_for_all_users up to its store update, if it has one
HookDispatch ==
    /\ hook.pc = "dispatch"
    /\ LET ev == hook.ev IN
       IF ev.type = "ping" \/ (ev.type = "push" /\ ev.commits = <<>>)
       THEN /\ hook' = [hook EXCEPT !.pc = "respond", !.status = 200]
            /\ UNCHANGED <<sent, txn, hist>>
       ELSE /\ \E fails \in SUBSET Chats :
                  sent' = [sent EXCEPT !["hook"] =
                              FanOut(SelectSeq(hook.repos,
                                               LAMBDA rec : HookEnabled(ev, rec)),
                                     HookText(ev), fails)]
            /\ IF ev.type = "push"
               THEN /\ txn' = [txn EXCEPT !["hook"] =
                                  BeginTxn("sha", ev.repo, 0, ev.commits[1], <<>>, FALSE)]
                    /\ hook' = [hook EXCEPT !.pc = "persist"]
                    /\ hist' = Impure(hist, ev.repo)
               ELSE IF ev.type = "watch"
               THEN /\ txn' = [txn EXCEPT !["hook"] =
                                  BeginTxn("stars", ev.repo, 0, ev.stars, <<>>, FALSE)]
                    /\ hook' = [hook EXCEPT !.pc = "persist"]
                    /\ UNCHANGED hist
               ELSE /\ hook' = [hook EXCEPT !.pc = "respond", !.status = 200]
                    /\ UNCHANGED <<txn, hist>>
    /\ UNCHANGED <<db, upstream, nextSha, lim, poll, cmdResult>>
    /\ UNCHANGED apiVars

\* the handler lets an exception of the store update through to `except Exception`
PersistErrorSurfaces(stage) == IF stage = "none" THEN 200 ELSE 500

\* update_last_commit_sha / update_last_star_count log every exception and return
\* None, so the handler goes on to `return web.Response(status=200, text="OK")`
StatusAfterPersist(stage) == 200

\* one await inside update_last_commit_sha / update_last_star_count
HookPersist ==
    /\ hook.pc = "persist"
    /\ \/ /\ DbStep("hook")
          /\ hook' = IF txn'["hook"].stage = "none"
                     THEN [hook EXCEPT !.pc = "respond",
                                       !.status = StatusAfterPersist("none")]
                     ELSE hook
       \/ /\ DbFail("hook")
          /\ hook' = IF txn'["hook"].stage = "none"
                     THEN [hook EXCEPT !.pc = "respond",
                                       !.status = StatusAfterPersist(txn["hook"].stage)]
                     ELSE hook
    /\ UNCHANGED <<upstream, nextSha, lim, poll, sent, cmdResult, hist>>
    /\ UNCHANGED apiVars

\* the chats bot.send_message was called for
SinkChats(calls) == {calls[i].chat_id : i \in DOMAIN calls}

\* `return web.Response(status=...)`
HookRespond ==
    /\ hook.pc = "respond"
    /\ hook' = [HookIdle EXCEPT !.prev =
                   IF lim.web = "signed"
                   THEN [req |-> hook.req, type |-> hook.ev.type,
                         subs |-> Subs(hook.db0, hook.ev.repo),
                         chats |-> SinkChats(sent["hook"]), status |-> hook.status]
                   ELSE NoPrev]
    /\ sent' = [sent EXCEPT !["hook"] = <<>>]
    /\ UNCHANGED <<db, upstream, nextSha, lim, poll, txn, cmdResult, hist>>
    /\ UNCHANGED apiVars

\* ------------------------------------------------------------ specification
\* ------------------------------------------------------------ TokenManager -> utils/token_manager.py
\* a token is the sequence of its characters
TokA == <<"g", "i", "t", "h", "u", "b", "_", "p", "a", "t", "_", "A">>

TokB == <<"g", "i", "t", "h", "u", "b", "_", "p", "a", "t", "_", "B">>

TokC == <<"g", "h", "p", "_", "C", "c", "c", "c", "c", "c", "c">>

TokD == <<"g", "h", "p", "_", "D", "d", "d", "d", "d", "d", "d">>

TokS == <<"s", "h", "o", "r", "t">>

\* the token lists of GITHUB_TOKEN the runs start from
PoolConfigs == {<<>>, <<TokC>>, <<TokC, TokD>>, <<TokA, TokB>>, <<TokC, TokD, TokS>>}

\* the clock readings and the X-RateLimit-Reset values of the runs
Times == {100, 200}

ResetTimes == {150, 450}

RemainingValues == {0, 4999}

\* token[:10] + "..." if len(token) > 10 else token
_get_token_hash(token) ==
    IF Len(token) > HashLen THEN SubSeq(token, 1, HashLen) \o <<".", ".", ".">>
    ELSE token

\* a stats dict without any key
EmptyStats == [remaining |-> Absent, reset |-> Absent, limit |-> Absent]

\* the dict after the assignments of the arguments that are not None
SetStats(old, remaining, reset, limit) ==
    [remaining |-> IF remaining # Absent THEN remaining ELSE old.remaining,
     reset |-> IF reset # Absent THEN reset ELSE old.reset,
     limit |-> IF limit # Absent THEN limit ELSE old.limit]

\* TokenManager.__init__
NewPool(tokens) == [tokens |-> tokens, current_index |-> 0, token_stats |-> <<>>]

\* TokenManager.update_token_stats: token_stats afterwards
update_token_stats(token_stats, token, remaining, reset, limit) ==
    LET token_hash == _get_token_hash(token)
        old == IF token_hash \in DOMAIN token_stats THEN token_stats[token_hash]
               ELSE EmptyStats
    IN (token_hash :> SetStats(old, remaining, reset, limit)) @@ token_stats

\* TokenManager.get_token_wait_time at clock reading t (Absent for None)
get_token_wait_time(token_stats, token, t) ==
    LET token_hash == _get_token_hash(token) IN
    IF token_hash \notin DOMAIN token_stats THEN Absent
    ELSE LET reset_time == IF token_stats[token_hash].reset = Absent THEN 0
                           ELSE token_stats[token_hash].reset
         IN IF reset_time > t THEN reset_time - t ELSE Absent

\* the wait of the token at 0-based index i of the pool
WaitAt(pl, i, t) == get_token_wait_time(pl.token_stats, pl.tokens[i + 1], t)

\* the 0-based index the scan of get_available_token visits at its k-th step
ScanIndex(pl, k) == (pl.current_index + k) % Len(pl.tokens)

\* TokenManager.get_available_token on a pool with tokens: current_index after
\* the call.  The scan from current_index stops at the first token without a
\* wait; when every token has one, the first token of the list with the least
\* wait is taken (line 106 is never reached: every wait is then not None)
SelectIndex(pl, t) ==
    LET n == Len(pl.tokens)
        free == {k \in 0..(n - 1) : WaitAt(pl, ScanIndex(pl, k), t) = Absent}
    IN IF free # {}
       THEN ScanIndex(pl, CHOOSE k \in free : \A j \in free : k <= j)
       ELSE CHOOSE i \in 0..(n - 1) :
               /\ \A j \in 0..(n - 1) : WaitAt(pl, i, t) <= WaitAt(pl, j, t)
               /\ \A j \in 0..(i - 1) : WaitAt(pl, j, t) > WaitAt(pl, i, t)

\* get_available_token: None for an empty list (`if not self.tokens`), or the pair
\* returned, with the cursor the call started from
get_available_token(pl, t) ==
    IF pl.tokens = <<>>
    THEN [ret |-> "None", token |-> <<>>, wait |-> Absent, from |-> pl.current_index]
    ELSE LET i == SelectIndex(pl, t) IN
         [ret |-> "pair", token |-> pl.tokens[i + 1], wait |-> WaitAt(pl, i, t),
          from |-> pl.current_index]

\* current_index after get_available_token
IndexAfterSelect(pl, t) == IF pl.tokens = <<>> THEN pl.current_index ELSE SelectIndex(pl, t)

\* switch_to_next_token: current_index afterwards
switch_to_next_token(pl) ==
    IF Len(pl.tokens) > 1 THEN (pl.current_index + 1) % Len(pl.tokens)
    ELSE pl.current_index

\* get_current_token: None for an empty list
get_current_token(pl) == IF pl.tokens = <<>> THEN <<>> ELSE pl.tokens[pl.current_index + 1]

\* no get_available_token result at hand
NoSelection == [ret |-> "none", token |-> <<>>, wait |-> Absent, from |-> 0]

\* ghost: the stats recorded for the token at every position of the list
Unrecorded(tokens) == [i \in 1..Len(tokens) |-> EmptyStats]

Record(rec, tokens, token, remaining, reset, limit) ==
    [i \in DOMAIN rec |-> IF tokens[i] = token
                          THEN SetStats(rec[i], remaining, reset, limit)
                          ELSE rec[i]]

\* no GitHubClient
NoClient == [pc |-> "none"]

\* the clock advances
Tick ==
    /\ \E t \in Times : t > now /\ now' = t
    /\ selected' = NoSelection
    /\ UNCHANGED <<pool, recorded, client>>
    /\ UNCHANGED storeVars

\* the argument lists _request calls update_token_stats with: remaining, the
\* client's earlier reset time (or None) and the limit; then the new reset alone
StatsCalls ==
    {<<remaining, reset, RATE_LIMIT_WITH_TOKEN>> :
        remaining \in RemainingValues, reset \in ResetTimes \cup {0, Absent}}
    \cup {<<Absent, reset, Absent>> : reset \in ResetTimes}

\* a caller records the quota of a response for one of the tokens
UpdateTokenStats ==
    /\ \E i \in DOMAIN pool.tokens, args \in StatsCalls :
          /\ pool' = [pool EXCEPT !.token_stats =
                         update_token_stats(@, pool.tokens[i], args[1], args[2], args[3])]
          /\ recorded' = Record(recorded, pool.tokens, pool.tokens[i],
                                args[1], args[2], args[3])
    /\ selected' = NoSelection
    /\ UNCHANGED <<now, client>>
    /\ UNCHANGED storeVars

\* a caller asks for a token
GetAvailableToken ==
    /\ selected' = get_available_token(pool, now)
    /\ pool' = [pool EXCEPT !.current_index = IndexAfterSelect(pool, now)]
    /\ UNCHANGED <<now, recorded, client>>
    /\ UNCHANGED storeVars

\* a caller switches the token
SwitchToNextToken ==
    /\ pool' = [pool EXCEPT !.current_index = switch_to_next_token(pool)]
    /\ selected' = NoSelection
    /\ UNCHANGED <<now, recorded, client>>
    /\ UNCHANGED storeVars

\* ------------------------------------------------------------ GitHubClient -> services/github.py
\* the token lists of GITHUB_TOKEN the client runs start from
ClientPools == {<<TokC>>, <<TokC, TokD>>}

\* seconds from the response to the X-RateLimit-Reset time it carries
ResetDelays == {50, 300, 350}

\* a response without X-RateLimit-* headers
NoHeaders == [remaining |-> Absent, reset |-> Absent, limit |-> Absent]

\* the X-RateLimit-* headers a response may carry at clock reading t: none or all
HeaderSets(t) ==
    {NoHeaders}
    \cup {[remaining |-> remaining, reset |-> t + d, limit |-> RATE_LIMIT_WITH_TOKEN] :
             remaining \in RemainingValues, d \in ResetDelays}

\* what the request may come to at clock reading t: a network failure
\* (aiohttp.ClientError), another exception (e.g. asyncio.TimeoutError), or a
\* response with a status, headers, an error text and a body that parses or not
Responses(t) ==
    {[status |-> 0, fault |-> fault, headers |-> NoHeaders, text |-> "", json |-> FALSE] :
        fault \in {"ClientError", "Exception"}}
    \cup {[status |-> 200, fault |-> "none", headers |-> h, text |-> "", json |-> json] :
             h \in HeaderSets(t), json \in BOOLEAN}
    \cup {[status |-> 403, fault |-> "none", headers |-> h, text |-> text, json |-> TRUE] :
             h \in HeaderSets(t), text \in {"rate limit exceeded", "too large", "forbidden"}}
    \cup {[status |-> status, fault |-> "none", headers |-> h, text |-> "", json |-> TRUE] :
             h \in HeaderSets(t), status \in {404, 500}}

NoResponse == [status |-> 0, fault |-> "none", headers |-> NoHeaders, text |-> "",
               json |-> FALSE]

\* _request has not returned
Pending == [value |-> "pending", at |-> "none"]

\* ghost: no response has reported an exhausted quota with a reset above the
\* threshold
NoReport == [token |-> <<>>, until |-> 0]

\* ghost: the last such report, the token it was for and the reset time it gave;
\* a later response that reports quota left for the token clears it
ReportAfter(cl, h, t) ==
    IF h.remaining = 0 /\ h.reset - t > RATE_LIMIT_WAIT_THRESHOLD
    THEN [token |-> cl.token, until |-> h.reset]
    ELSE IF h.remaining # Absent /\ cl.reported.token = cl.token THEN NoReport
    ELSE cl.reported

\* a client that starts with the quota of a token whether it has one or not
NewClientTokenQuota(via, token, manager) ==
    [pc |-> "idle", via |-> via, token |-> token, manager |-> manager,
     remaining |-> RATE_LIMIT_WITH_TOKEN,
     reset |-> 0, t0 |-> 0, calls |-> 0, http |-> 0, events |-> <<>>,
     first |-> NoResponse, firstToken |-> <<>>, resp |-> NoResponse,
     respToken |-> <<>>, ret |-> Pending, checks |-> 1, reported |-> NoReport]

\* GitHubClient.__init__; calls counts the _request calls made through the
\* client, http the requests of the current call, events lists the sleeps and
\* requests of the current call, first and resp are its first and last response;
\* checks (ghost) counts the clients the poll loop has built
NewClient(via, token, manager) ==
    [pc |-> "idle", via |-> via, token |-> token, manager |-> manager,
     remaining |-> IF token # <<>> THEN RATE_LIMIT_WITH_TOKEN
                   ELSE RATE_LIMIT_WITHOUT_TOKEN,
     reset |-> 0, t0 |-> 0, calls |-> 0, http |-> 0, events |-> <<>>,
     first |-> NoResponse, firstToken |-> <<>>, resp |-> NoResponse,
     respToken |-> <<>>, ret |-> Pending, checks |-> 1, reported |-> NoReport]

RECURSIVE RawEnvToken(_)
\* os.getenv("GITHUB_TOKEN") as polling.py reads it: the whole string, None when
\* the variable is not set
RawEnvToken(tokens) ==
    IF tokens = <<>> THEN <<>>
    ELSE IF Len(tokens) = 1 THEN tokens[1]
    ELSE tokens[1] \o <<";">> \o RawEnvToken(Tail(tokens))

\* a command handler calls create_github_client(), or a repository check of the
\* poll loop builds GitHubClient(GITHUB_TOKEN) without a token manager.  With no
\* token configured the module has no TokenManager (_token_manager is None) and
\* create_github_client builds GitHubClient(None, token_manager=None)
CreateClient ==
    /\ client.pc = "none"
    /\ \/ /\ pool.tokens # <<>>
          /\ selected' = get_available_token(pool, now)
          /\ pool' = [pool EXCEPT !.current_index = SelectIndex(pool, now)]
          /\ client' = NewClient("command", selected'.token, TRUE)
       \/ /\ pool.tokens = <<>>
          /\ client' = NewClient("command", <<>>, FALSE)
          /\ UNCHANGED <<pool, selected>>
       \/ /\ client' = NewClient("poll", RawEnvToken(pool.tokens), FALSE)
          /\ UNCHANGED <<pool, selected>>
    /\ UNCHANGED <<now, recorded>>
    /\ UNCHANGED storeVars

\* the next repository check of the poll loop, in the same cycle or in a later
\* one: _check_repository builds a new GitHubClient for the same GITHUB_TOKEN
NextRepositoryCheck ==
    /\ client.pc \in {"idle", "done"}
    /\ client.via = "poll"
    /\ client.checks < MaxChecks
    /\ client' = [NewClient("poll", RawEnvToken(pool.tokens), FALSE)
                     EXCEPT !.checks = client.checks + 1,
                            !.reported = client.reported]
    /\ UNCHANGED <<now, pool, recorded, selected>>
    /\ UNCHANGED storeVars

\* a method of the client (get_commits, get_repository_info, ...) calls _request
Call ==
    /\ client.pc \in {"idle", "done"}
    /\ client.calls < MaxCalls
    /\ client' = [client EXCEPT !.pc = "enter", !.calls = @ + 1, !.http = 0,
                                !.events = <<>>, !.first = NoResponse,
                                !.firstToken = <<>>, !.ret = Pending]
    /\ UNCHANGED <<now, pool, recorded, selected>>
    /\ UNCHANGED storeVars

\* a wait equal to the threshold skips the request as well
AtOrAboveThreshold(wait_time) == wait_time >= RATE_LIMIT_WAIT_THRESHOLD

\* the wait is above the threshold: the request is skipped
AboveThreshold(wait_time) == wait_time > RATE_LIMIT_WAIT_THRESHOLD

\* the seconds _request sleeps for a wait at or under the threshold
SleepFor(wait_time) == wait_time + 1

\* entry of _request, by a method or by its own retry: the check of the
\* client's rate limit state before the request
RequestEnter ==
    /\ client.pc = "enter"
    /\ LET wait_time == client.reset - now IN
       client' =
         IF client.remaining = 0 /\ client.reset > now
         THEN IF AboveThreshold(wait_time)
              THEN [client EXCEPT !.pc = "done", !.t0 = now,
                                  !.ret = [value |-> "None", at |-> "precheck"]]
              ELSE [client EXCEPT !.pc = "presleep", !.t0 = now]
         ELSE [client EXCEPT !.pc = "send", !.t0 = now]
    /\ UNCHANGED <<now, pool, recorded, selected>>
    /\ UNCHANGED storeVars

\* `await asyncio.sleep(wait_time + 1)` of the check before the request
PreSleep ==
    /\ client.pc = "presleep"
    /\ LET seconds == SleepFor(client.reset - client.t0) IN
       /\ now' = now + seconds
       /\ client' = [client EXCEPT !.pc = "send",
                                   !.events = Append(@, <<"sleep", seconds>>)]
    /\ UNCHANGED <<pool, recorded, selected>>
    /\ UNCHANGED storeVars

\* only `except aiohttp.ClientError`
CaughtClientErrorOnly(exc) == exc = "ClientError"

\* the exceptions the try block of _request catches
Caught(exc) == exc \in {"ClientError", "Exception"}

\* the client's rate limit fields after the headers of a response
HeaderRemaining(cl, h) == IF h.remaining # Absent THEN h.remaining ELSE cl.remaining

HeaderReset(cl, h) == IF h.reset # Absent THEN h.reset ELSE cl.reset

\* the client reports the headers to its token manager, when it has one
Reports(cl) == cl.manager /\ cl.token # <<>>

\* token_stats after the two update_token_stats calls of _request
StatsAfterResponse(token_stats, cl, h) ==
    LET first == IF h.remaining # Absent
                 THEN update_token_stats(token_stats, cl.token, h.remaining,
                                         IF h.reset # Absent THEN cl.reset ELSE Absent,
                                         h.limit)
                 ELSE token_stats
    IN IF h.reset # Absent
       THEN update_token_stats(first, cl.token, Absent, h.reset, Absent)
       ELSE first

\* the ghost of the same two calls
RecordedAfterResponse(rec, tokens, cl, h) ==
    LET first == IF h.remaining # Absent
                 THEN Record(rec, tokens, cl.token, h.remaining,
                             IF h.reset # Absent THEN cl.reset ELSE Absent, h.limit)
                 ELSE rec
    IN IF h.reset # Absent
       THEN Record(first, tokens, cl.token, Absent, h.reset, Absent)
       ELSE first

\* the response is a 403 that _request takes for an exhausted rate limit
QuotaExhausted(cl, r) ==
    /\ r.status = 403
    /\ HeaderRemaining(cl, r.headers) = 0
    /\ HeaderReset(cl, r.headers) > cl.t0

\* what _request returns for a response it does not retry
ReturnFor(r) ==
    CASE r.fault # "none" ->
            IF Caught(r.fault) THEN [value |-> "None", at |-> "except"]
            ELSE [value |-> "raised", at |-> "except"]
      [] r.status = 403 ->
            IF r.text = "too large" THEN [value |-> "None", at |-> "403 too large"]
            ELSE [value |-> "None", at |-> "403"]
      [] r.status = 404 -> [value |-> "None", at |-> "404"]
      [] r.status # 200 ->
            IF Caught("ClientError") THEN [value |-> "None", at |-> "raise_for_status"]
            ELSE [value |-> "raised", at |-> "raise_for_status"]
      [] ~r.json ->
            IF Caught("Exception") THEN [value |-> "None", at |-> "json"]
            ELSE [value |-> "raised", at |-> "json"]
      [] OTHER -> [value |-> "data", at |-> "json"]

\* the request is sent and answered; the headers are taken over and reported, the
\* status decides between a return, a switch of token with a retry, and a sleep
\* with a retry
Respond ==
    /\ client.pc = "send"
    /\ client.http < MaxRequests
    /\ \E r \in Responses(now) :
        LET h == r.headers
            seen == [client EXCEPT !.http = @ + 1,
                                   !.events = Append(@, <<"http", client.token>>),
                                   !.remaining = HeaderRemaining(client, h),
                                   !.reset = HeaderReset(client, h),
                                   !.resp = r, !.respToken = client.token,
                                   !.reported = ReportAfter(client, h, now),
                                   !.first = IF client.http = 0 THEN r ELSE @,
                                   !.firstToken = IF client.http = 0 THEN client.token
                                                  ELSE @]
            wait_time == seen.reset - client.t0
            switched == [pool EXCEPT !.current_index = switch_to_next_token(pool)]
            new_token == get_current_token(switched)
            stats == IF Reports(client)
                     THEN StatsAfterResponse(pool.token_stats, client, h)
                     ELSE pool.token_stats
        IN
        /\ recorded' = IF Reports(client)
                       THEN RecordedAfterResponse(recorded, pool.tokens, client, h)
                       ELSE recorded
        /\ IF QuotaExhausted(client, r)
           THEN IF AboveThreshold(wait_time)
                THEN IF client.manager
                     THEN /\ pool' = [switched EXCEPT !.token_stats = stats]
                          /\ client' =
                               IF new_token # client.token
                               THEN [seen EXCEPT !.pc = "enter", !.token = new_token]
                               ELSE [seen EXCEPT !.pc = "done",
                                        !.ret = [value |-> "None", at |-> "403 rate limit"]]
                     ELSE /\ pool' = [pool EXCEPT !.token_stats = stats]
                          /\ client' = [seen EXCEPT !.pc = "done",
                                           !.ret = [value |-> "None", at |-> "403 rate limit"]]
                ELSE /\ pool' = [pool EXCEPT !.token_stats = stats]
                     /\ client' = [seen EXCEPT !.pc = "postsleep"]
           ELSE /\ pool' = [pool EXCEPT !.token_stats = stats]
                /\ client' = [seen EXCEPT !.pc = "done", !.ret = ReturnFor(r)]
    /\ selected' = NoSelection
    /\ UNCHANGED now
    /\ UNCHANGED storeVars

\* `await asyncio.sleep(wait_time + 1)` after a 403, then the retry
PostSleep ==
    /\ client.pc = "postsleep"
    /\ LET seconds == SleepFor(client.reset - client.t0) IN
       /\ now' = now + seconds
       /\ client' = [client EXCEPT !.pc = "enter",
                                   !.events = Append(@, <<"sleep", seconds>>)]
    /\ UNCHANGED <<pool, recorded, selected>>
    /\ UNCHANGED storeVars

\* time passes between two calls and while a request is under way (the sleeps
\* advance the clock themselves; the check at the entry of _request reads the
\* clock at once)
ClientTick ==
    /\ client.pc \in {"idle", "done", "send"}
    /\ \E t \in Times : t > now /\ now' = t
    /\ UNCHANGED <<pool, recorded, selected, client>>
    /\ UNCHANGED storeVars

InitCommon ==
    /\ db = lim.seed
    /\ upstream = [r \in Repos |-> [commits |-> <<>>, stars |-> 0]]
    /\ nextSha = 1
    /\ poll = PollIdle
    /\ hook = HookIdle
    /\ txn = [p \in Procs |-> NoTxn]
    /\ sent = [p \in {"poll", "hook"} |-> <<>>]
    /\ cmdResult = "none"
    /\ hist = HistInit

\* the store specifications do not call GitHub through a modelled client
InitApiIdle ==
    /\ now = 100
    /\ pool = NewPool(<<>>)
    /\ recorded = Unrecorded(<<>>)
    /\ selected = NoSelection
    /\ client = NoClient

Init == lim \in ConcurrentScenarios /\ InitCommon /\ InitApiIdle

InitSerial == lim \in SerialScenarios /\ InitCommon /\ InitApiIdle

Environment == \E r \in ScenarioRepos : Push(r) \/ ForcePush(r) \/ Star(r) \/ Unstar(r)

Next ==
    \/ Environment
    \/ CmdStart
    \/ CmdStep
    \/ CmdReturn
    \/ PollStart
    \/ PollFetchCommits
    \/ PollSendCommits
    \/ PollFetchStars
    \/ PollSendStars
    \/ PollFetchStats
    \/ PollPersist
    \/ PollDelay
    \/ HookReceive
    \/ HookDispatch
    \/ HookPersist
    \/ HookRespond

InitHook == lim \in HookScenarios /\ InitCommon /\ InitApiIdle

NextHook ==
    \/ Environment
    \/ CmdStart
    \/ CmdStep
    \/ CmdReturn
    \/ HookReceive
    \/ HookDispatch
    \/ HookPersist
    \/ HookRespond

\* the webhook handler, one request at a time
SpecHook == InitHook /\ [][NextHook]_vars

InitLoop == lim \in LoopScenarios /\ InitCommon /\ InitApiIdle

PollProgress ==
    \/ PollStart
    \/ PollFetchCommits
    \/ PollSendCommits
    \/ PollFetchStars
    \/ PollSendStars
    \/ PollFetchStats
    \/ PollPersist
    \/ PollDelay
    \/ PollExit

NextLoop ==
    \/ Environment
    \/ PollProgress
    \/ PollRaise
    \/ PollCycleRaise
    \/ Stop
    \/ Shutdown

\* a run in which only the GitHub API side acts: nobody is subscribed
ApiScenario ==
    [serial |-> TRUE, procs |-> {}, pairs |-> {}, paths |-> {}, types |-> {},
     commits |-> 0, stars |-> 0, force |-> FALSE, seed |-> EmptyDb,
     raises |-> FALSE, stop |-> FALSE,
     web |-> "plain", io |-> FALSE, issues |-> 0, branch |-> "main"]

InitPool ==
    /\ lim = ApiScenario
    /\ InitCommon
    /\ now = 100
    /\ pool \in {NewPool(tokens) : tokens \in PoolConfigs}
    /\ recorded = Unrecorded(pool.tokens)
    /\ selected = NoSelection
    /\ client = NoClient

NextPool ==
    \/ Tick
    \/ UpdateTokenStats
    \/ GetAvailableToken
    \/ SwitchToNextToken
    \/ CreateClient

InitClient ==
    /\ lim = ApiScenario
    /\ InitCommon
    /\ now = 100
    /\ pool \in {NewPool(tokens) : tokens \in ClientPools}
    /\ recorded = Unrecorded(pool.tokens)
    /\ selected = NoSelection
    /\ client = NoClient

NextClient ==
    \/ CreateClient
    \/ Call
    \/ RequestEnter
    \/ PreSleep
    \/ Respond
    \/ PostSleep
    \/ ClientTick

\* the poll loop's clients: one per repository check, each with its _request calls
NextChecks == NextClient \/ NextRepositoryCheck

SpecChecks == InitClient /\ [][NextChecks]_vars

\* one GitHubClient, created by a command handler or by the poll loop, and the
\* _request calls made through it
SpecClient == InitClient /\ [][NextClient]_vars

\* the TokenManager under any sequence of calls of its methods
SpecPool == InitPool /\ [][NextPool]_vars

\* the program: the coroutines interleave at every await
Spec == Init /\ [][Next]_vars

\* the same handlers, run one at a time (no two handlers overlap)
SpecSerial == InitSerial /\ [][Next]_vars

\* the poll loop alone, with a check that may raise and with stop(); the event loop
\* resumes the loop's coroutine whenever its await is over (weak fairness)
SpecLoop == InitLoop /\ [][NextLoop]_vars /\ WF_vars(PollProgress)

\* ------------------------------------------------------------ properties: notions
\* the subscriptions of the repository under check, as the cycle's snapshot has them
PollRecs == RepoDataList(poll.repos, poll.cur)

\* the subscriptions of repository r in the store now
StoredRecs(r) == get_repositories_by_repo_key(db, r)

\* position of the first occurrence of x in seq, 0 when x does not occur
IndexOf(seq, x) ==
    IF \E i \in DOMAIN seq : seq[i] = x
    THEN CHOOSE i \in DOMAIN seq : seq[i] = x /\ \A j \in 1..(i - 1) : seq[j] # x
    ELSE 0

\* the commit check of the current repository is over (its store update may be pending)
CommitCheckDone == poll.pc \in {"commits_persist", "stars"}

\* the star check of the current repository is over, its store update included
StarCheckDone == poll.pc = "stats"

\* every subscription of r in the store has last_commit_sha = sha
AllStoredSha(r, sha) ==
    \A i \in DOMAIN StoredRecs(r) : StoredRecs(r)[i].last_commit_sha = sha

\* every subscription of r in the store has last_star_count = n
AllStoredStars(r, n) ==
    \A i \in DOMAIN StoredRecs(r) : StoredRecs(r)[i].last_star_count = n

\* every sink call of the list carries the text
AllTexts(calls, text) == \A i \in DOMAIN calls : calls[i].text = text

\* the boolean preference of a subscription at a preference path (absent: off)
PrefAt(events, path) ==
    IF Len(path) = 1 THEN events[path[1]]
    ELSE IF path[2] \in DOMAIN events[path[1]] THEN events[path[1]][path[2]]
    ELSE FALSE

\* the preference path of an event kind
PathOf(type, action) ==
    CASE type = "push" -> <<"commits">>
      [] type = "watch" -> <<"watch">>
      [] type = "fork" -> <<"forks">>
      [] type = "issues" -> <<"issues", action>>
      [] type = "issue_comment" -> <<"issue_comments", action>>
      [] type = "pull_request" -> <<"pull_requests", action>>
      [] type = "pull_request_review_comment" -> <<"pull_request_comments", action>>
      [] OTHER -> <<"releases", action>>

\* how many of the sink calls went to the subscription rec
CallsTo(calls, rec) ==
    Cardinality({i \in DOMAIN calls :
                    calls[i].chat_id = rec.chat_id /\ calls[i].thread_id = NoThread})

\* one call per subscription of recs whose preference at path is on, none otherwise
OncePerEnabled(calls, recs, path) ==
    /\ \A i \in DOMAIN recs :
          CallsTo(calls, recs[i]) = IF PrefAt(recs[i].events, path) THEN 1 ELSE 0
    /\ \A j \in DOMAIN calls : \E i \in DOMAIN recs : calls[j].chat_id = recs[i].chat_id

\* every subscription of recs whose preference at path is on was called
EveryEnabledCalled(calls, recs, path) ==
    \A i \in DOMAIN recs :
        PrefAt(recs[i].events, path) => \E j \in DOMAIN calls : calls[j].chat_id = recs[i].chat_id

C2_FirstRunSilent ==
    (/\ CommitCheckDone
     /\ poll.commits # <<>>
     /\ \A i \in DOMAIN PollRecs : PollRecs[i].last_commit_sha = NoSha)
    => /\ poll.emitted = "none"
       /\ poll.new = <<>>
       /\ sent["poll"] = <<>>
       /\ poll.pc = "stars" => AllStoredSha(poll.cur, poll.commits[1])

\* C2 witness: the first check of a repository with a subscriber that has commit
\* notifications on fetched two commits and has stored the newest
C2_Witness ==
    /\ poll.pc = "stars"
    /\ Len(poll.commits) >= 2
    /\ \A i \in DOMAIN PollRecs : PollRecs[i].last_commit_sha = NoSha
    /\ \E i \in DOMAIN PollRecs : PollRecs[i].events.commits
    /\ sent["poll"] = <<>>
    /\ AllStoredSha(poll.cur, poll.commits[1])

C3_IncreaseEmitsAndAdvances ==
    (StarCheckDone /\ poll.stars > PollRecs[1].last_star_count)
    => /\ poll.emitted = "star"
       /\ OncePerEnabled(sent["poll"], PollRecs, <<"watch">>)
       /\ AllStoredStars(poll.cur, poll.stars)

\* C4 (SpecSerial): a star check that observed a count lower than or equal to the
\* snapshot last_star_count goes straight on to the statistics, emits no star
\* event and makes no sink call.
C4_NoStarWithoutIncrease ==
    (/\ poll.pc \in {"stars_send", "stars_persist", "stats", "stats_persist"}
     /\ poll.stars <= PollRecs[1].last_star_count)
    => /\ poll.pc \in {"stats", "stats_persist"}
       /\ poll.emitted = "none"
       /\ sent["poll"] = <<>>

\* C4 witness: a subscriber with stars on, a baseline of two, and a check that
\* observed a lower count
C4_Witness ==
    /\ poll.pc = "stats"
    /\ PollRecs[1].last_star_count = 2
    /\ poll.stars < 2
    /\ poll.stars = upstream[poll.cur].stars
    /\ \E i \in DOMAIN PollRecs : PollRecs[i].events.watch
    /\ sent["poll"] = <<>>

\* C5 (SpecSerial): after a star check that observed a count c below the snapshot
\* last_star_count, every subscription of the repository stores c.
C5_DecreaseResetsBaseline ==
    (StarCheckDone /\ poll.stars < PollRecs[1].last_star_count)
    => AllStoredStars(poll.cur, poll.stars)

\* C6 (SpecSerial): in no step does the stored last_star_count of a subscription
\* that exists before and after the step decrease.
C6_StarCountNeverDecreases ==
    [][\A i \in DOMAIN db.repositories, j \in DOMAIN db'.repositories :
          StorageKey(db.repositories[i]) = StorageKey(db'.repositories[j])
              => db'.repositories[j].last_star_count >= db.repositories[i].last_star_count]_vars

\* ------------------------------------------------------------ properties: store
\* C8 (Spec): every save of a store operation writes what the operation, run as
\* one atomic read-modify-write on the store as it is at the save, would write,
\* so no mutation saved since the operation loaded is lost.
C8_SaveIsAtomicUpdate ==
    [][\A p \in Procs :
          (txn[p].stage = "save" /\ txn'[p].stage = "none")
              => db' = Atomic([txn[p] EXCEPT !.stage = "load", !.db = EmptyDb], db)]_vars

\* ------------------------------------------------------------ properties: fan-out
\* an event was dispatched by the webhook handler (a ping and a push without
\* commits are answered without a dispatch)
HookDispatched ==
    /\ hook.pc \in {"persist", "respond"}
    /\ hook.repos # <<>>
    /\ hook.ev.type # "ping"
    /\ hook.ev.type = "push" => hook.ev.commits # <<>>

\* C9 (SpecSerial): for every event dispatched by the webhook handler or by the
\* poll cycle, the sink was called exactly once for each subscription of the
\* repository whose preference at the path of the event kind is on, with its
\* chat_id and thread_id, and not at all for any other subscription.
C9_OneCallPerEnabledSubscription ==
    /\ HookDispatched
          => OncePerEnabled(sent["hook"], hook.repos, PathOf(hook.ev.type, hook.ev.action))
    /\ (poll.pc = "commits_persist" /\ poll.emitted = "commit")
          => OncePerEnabled(sent["poll"], PollRecs, <<"commits">>)
    /\ (poll.pc = "stars_persist" /\ poll.emitted = "star")
          => OncePerEnabled(sent["poll"], PollRecs, <<"watch">>)

\* C9 witness: an issues/opened webhook for a repository with two subscribers,
\* the first with issues.opened on, the second with it off: one call, to the first
C9_Witness ==
    /\ hook.pc = "respond"
    /\ hook.ev.type = "issues" /\ hook.ev.action = "opened"
    /\ Len(hook.repos) = 2
    /\ hook.repos[1].events.issues.opened
    /\ ~hook.repos[2].events.issues.opened
    /\ Len(sent["hook"]) = 1
    /\ sent["hook"][1].chat_id = hook.repos[1].chat_id

\* C10 (SpecSerial): when a sink call of a dispatched event failed, in the
\* webhook path and in the poll path alike, every subscription whose preference
\* is on was still called, and once the handler is through the store update of
\* the event (last_commit_sha, last_star_count) is in the store.
C10_SendFailureIsolated ==
    /\ (HookDispatched /\ \E j \in DOMAIN sent["hook"] : ~sent["hook"][j].ok)
          => /\ EveryEnabledCalled(sent["hook"], hook.repos,
                                   PathOf(hook.ev.type, hook.ev.action))
             /\ (hook.pc = "respond" /\ hook.ev.type = "push")
                   => AllStoredSha(hook.ev.repo, hook.ev.commits[1])
             /\ (hook.pc = "respond" /\ hook.ev.type = "watch")
                   => AllStoredStars(hook.ev.repo, hook.ev.stars)
    /\ (/\ CommitCheckDone
        /\ poll.emitted = "commit"
        /\ \E j \in DOMAIN sent["poll"] : ~sent["poll"][j].ok)
          => /\ EveryEnabledCalled(sent["poll"], PollRecs, <<"commits">>)
             /\ poll.pc = "stars" => AllStoredSha(poll.cur, poll.new[1])
    /\ (/\ poll.pc \in {"stars_persist", "stats"}
        /\ poll.emitted = "star"
        /\ \E j \in DOMAIN sent["poll"] : ~sent["poll"][j].ok)
          => /\ EveryEnabledCalled(sent["poll"], PollRecs, <<"watch">>)
             /\ poll.pc = "stats" => AllStoredStars(poll.cur, poll.stars)

\* C10 witness: a push webhook for two subscribers with commits on; the call to
\* the first failed, the second was called, and the head SHA is in the store
C10_Witness ==
    /\ hook.pc = "respond"
    /\ hook.ev.type = "push"
    /\ Len(sent["hook"]) = 2
    /\ ~sent["hook"][1].ok
    /\ sent["hook"][2].ok
    /\ AllStoredSha(hook.ev.repo, hook.ev.commits[1])

\* ------------------------------------------------------------ properties: poll cycle
\* the distinct repository keys of the cycle's snapshot
SnapshotKeys == {poll.repos[i].repo_key : i \in DOMAIN poll.repos}

\* the poll loop is inside a cycle
InCycle == poll.pc \notin {"sleep", "exited"}

\* C11 (SpecLoop): a poll cycle checks every repository key of its snapshot once,
\* however many subscriptions the key has: the checks started so far and the
\* checks still to start are together the distinct keys, each once.  One check
\* saves last_commit_sha at most once, last_star_count at most once and the
\* statistics at most once.  The save of last_commit_sha after a batch begins
\* only when the fan-out of the batch is over: until then nothing was saved, and
\* when it begins every subscription with commits on has been called.
C11_OneCheckPerRepositoryKey ==
    /\ InCycle =>
          /\ Range(poll.done \o poll.queue) = SnapshotKeys
          /\ Len(poll.done \o poll.queue) = Cardinality(SnapshotKeys)
          /\ poll.cur = poll.done[Len(poll.done)]
          /\ poll.writes.sha <= 1
          /\ poll.writes.stars <= 1
          /\ poll.writes.stats <= 1
    /\ poll.pc \in {"commits", "commits_send"} => poll.writes = NoWrites
    /\ (poll.pc = "commits_persist" /\ poll.new # <<>>) =>
          /\ poll.emitted = "commit"
          /\ txn["poll"].op = "sha"
          /\ EveryEnabledCalled(sent["poll"], PollRecs, <<"commits">>)
          /\ poll.writes = NoWrites

\* C11 witness: the check of "o/r", which has two subscriptions, is over after a
\* batch was sent and one save each of last_commit_sha, last_star_count and the
\* statistics; "p/q" is still to be checked in this cycle
C11_Witness ==
    /\ poll.pc = "delay"
    /\ poll.cur = "o/r"
    /\ Len(RepoDataList(poll.repos, "o/r")) = 2
    /\ poll.done = <<"o/r">>
    /\ poll.queue = <<"p/q">>
    /\ poll.writes = [sha |-> 1, stars |-> 1, stats |-> 1]
    /\ \E c \in DOMAIN hist.notified : hist.notified[c] = 1

\* ------------------------------------------------------------ properties: TokenManager
\* positions of the token list
Positions == DOMAIN pool.tokens

\* the credential at position i is fresh: no reset time was recorded for it, or
\* the recorded reset time has passed
Fresh(i) == recorded[i].reset = Absent \/ recorded[i].reset <= now

\* the credential at position i is usable at once: fresh, or requests remain
Qualifies(i) == Fresh(i) \/ recorded[i].remaining > 0

\* get_available_token has just returned
Selected == selected.ret = "pair"

\* the positions holding the returned token
SelectedPositions == {i \in Positions : pool.tokens[i] = selected.token}

\* C12 (SpecPool): whenever some configured credential is fresh,
\* get_available_token returns a fresh credential and no wait, wherever the
\* cursor stood and however the exhausted credentials are arranged.
C12_FreshCredentialSelected ==
    (Selected /\ \E i \in Positions : Fresh(i)) =>
        /\ selected.wait = Absent
        /\ \E i \in SelectedPositions : Fresh(i)

\* C13 (SpecPool): get_available_token returns, scanning from the cursor, the first
\* credential that is fresh or has requests remaining, with no wait; a credential
\* with remaining > 0 counts even when its recorded reset time is in the future.
C13_RemainingQualifies ==
    (Selected /\ \E i \in Positions : Qualifies(i)) =>
        LET n == Len(pool.tokens)
            steps == {k \in 0..(n - 1) : Qualifies(((selected.from + k) % n) + 1)}
            first == CHOOSE k \in steps : \A j \in steps : k <= j
        IN /\ selected.wait = Absent
           /\ selected.token = pool.tokens[((selected.from + first) % n) + 1]

\* C14 (SpecPool): after get_available_token the cursor is in 0..len-1 and is the
\* index of the returned credential; when no credential is fresh or has requests
\* remaining, the returned credential has the least recorded reset time of all
\* and the returned wait is that reset time minus now.
C14_LeastResetWhenNoneQualifies ==
    Selected =>
        /\ pool.current_index \in 0..(Len(pool.tokens) - 1)
        /\ pool.tokens[pool.current_index + 1] = selected.token
        /\ (\A i \in Positions : ~Qualifies(i)) =>
              \E i \in SelectedPositions :
                 /\ \A j \in Positions : recorded[i].reset <= recorded[j].reset
                 /\ selected.wait = recorded[i].reset - now

\* ------------------------------------------------------------ properties: GitHubClient
\* the HTTP requests of the current call, in order
HttpEvents == SelectSeq(client.events, LAMBDA e : e[1] = "http")

\* C15 (SpecClient): when _request is entered while the client knows its
\* credential to be exhausted (its remaining is 0 and its reset time is in the
\* future), then with a wait reset - now above 300 seconds it returns None at
\* once, without a sleep and without a request, and with a wait of at most 300
\* seconds it sleeps wait + 1 seconds and then sends the request.
C15_SkipAboveThresholdElseSleep ==
    [][/\ (/\ client.pc = "enter"
           /\ client'.pc # "enter"
           /\ client.remaining = 0
           /\ client.reset > now)
          => IF client.reset - now > 300
             THEN /\ client'.pc = "done"
                  /\ client'.ret = [value |-> "None", at |-> "precheck"]
                  /\ client'.events = client.events
                  /\ client'.http = client.http
                  /\ now' = now
             ELSE /\ client'.pc = "presleep"
                  /\ client'.events = client.events
                  /\ now' = now
       /\ (client.pc = "presleep" /\ client'.pc # "presleep")
          => /\ client'.pc = "send"
             /\ now' = now + (client.reset - now) + 1
             /\ client'.events = Append(client.events, <<"sleep", (client.reset - now) + 1>>)
       /\ (client.pc = "send" /\ client'.pc # "send")
          => /\ client'.http = client.http + 1
             /\ client'.events = Append(client.events, <<"http", client.token>>)
      ]_vars

\* C15 witness: the second call through a client whose first response said
\* remaining 0 with a reset 350 seconds ahead returned None before any request
C15_Witness ==
    /\ client.pc = "done"
    /\ client.calls = 2
    /\ client.ret = [value |-> "None", at |-> "precheck"]
    /\ client.remaining = 0
    /\ client.reset - now > 300
    /\ client.events = <<>>
    /\ client.http = 0

\* C16 (SpecClient): a call whose first response is a 403 with remaining 0, made
\* while more than one credential is configured, sends the request exactly once
\* more, with the credential that follows the first one in the list (round
\* robin), and returns what the second response gives.
C16_SwitchAndRetryOnce ==
    (/\ client.pc = "done"
     /\ client.first.status = 403
     /\ client.first.headers.remaining = 0
     /\ Len(pool.tokens) > 1)
    => /\ Len(HttpEvents) = 2
       /\ HttpEvents[1][2] = client.firstToken
       /\ \E i \in Positions :
             /\ pool.tokens[i] = client.firstToken
             /\ HttpEvents[2][2] = pool.tokens[(i % Len(pool.tokens)) + 1]
       /\ client.ret = ReturnFor(client.resp)

\* C17 (SpecClient): _request never raises: after a 403 that is not a rate limit,
\* a 404, any other status that is not 2xx, a network failure or any other
\* exception inside the request it returns None.
C17_NeverRaises ==
    /\ client.pc # "none" => client.ret.value \in {"pending", "None", "data"}
    /\ (/\ client.pc = "done"
        /\ client.http > 0
        /\ client.resp.fault # "none" \/ client.resp.status # 200 \/ ~client.resp.json)
       => client.ret.value = "None"

\* C17 witness: the request ended in an exception that is not an
\* aiohttp.ClientError and the call returned None
C17_Witness ==
    /\ client.pc = "done"
    /\ client.http = 1
    /\ client.resp.fault = "Exception"
    /\ client.ret = [value |-> "None", at |-> "except"]

\* C18 (SpecClient): after a response that carries the X-RateLimit-* headers,
\* whatever its status, the token manager's stats of the token that made the
\* request are the values of the headers, for a client of the poll loop as for
\* a client of a command handler.
C18_HeadersReachTokenManager ==
    (client.pc # "none" /\ client.resp.headers # NoHeaders)
    => LET token_hash == _get_token_hash(client.respToken) IN
       /\ token_hash \in DOMAIN pool.token_stats
       /\ pool.token_stats[token_hash] = client.resp.headers

\* ------------------------------------------------------------ properties: poll loop
\* a repository check starts in this step
CheckStarts == poll'.pc = "commits" /\ poll.pc # "commits"

\* C19 (SpecLoop): when the check of a repository raises, the cycle goes on: the
\* checks still to start stay as they were, each check after the first of a
\* cycle starts from the delay that follows the check before it, and every
\* repository still to be checked is checked in the same cycle (unless the
\* process shuts down).  A cycle that failed as a whole does not end the loop:
\* from its sleep the loop starts a further cycle, unless it was stopped.
C19_FailureDoesNotAbortCycle ==
    /\ [][/\ (/\ poll.pc = "commits_send"
              /\ poll'.pc \notin {"commits_send", "commits_persist", "exited"})
             => /\ poll'.pc = "delay"
                /\ poll'.queue = poll.queue
                /\ poll'.done = poll.done
                /\ poll'.cur = poll.cur
                /\ poll'.failed = poll.failed \cup {poll.cur}
          /\ CheckStarts
             => \/ poll.pc = "sleep" /\ Len(poll'.done) = 1
                \/ /\ poll.pc = "delay"
                   /\ poll.queue # <<>>
                   /\ poll'.cur = Head(poll.queue)
                   /\ poll'.queue = Tail(poll.queue)
                   /\ poll'.done = Append(poll.done, Head(poll.queue))
                   /\ poll'.failed = poll.failed
         ]_vars
    /\ \A r \in Repos :
          (InCycle /\ poll.failed # {} /\ r \in Range(poll.queue))
             ~> ((poll.pc = "commits" /\ poll.cur = r /\ poll.failed # {})
                 \/ poll.pc = "exited")
    /\ (poll.pc = "sleep") ~> (poll.pc = "commits" \/ ~poll.running)

\* C19 witness: the check of "o/r" raised and the check of "p/q" has started in
\* the same cycle
C19_Witness ==
    /\ poll.pc = "commits"
    /\ poll.cur = "p/q"
    /\ poll.done = <<"o/r", "p/q">>
    /\ poll.failed = {"o/r"}
    /\ poll.running

Handling == hook.pc # "idle"

\* the X-Hub-Signature-256 header of the request is "sha256=" followed by the
\* lower-case hex HMAC-SHA256 of the received raw body under the configured secret
HeaderMatches ==
    /\ hook.req.signature.prefix = "sha256="
    /\ hook.req.signature.hex = "lower"
    /\ hook.req.signature.ascii
    /\ hook.req.signature.mac.key = hook.req.secret
    /\ hook.req.signature.mac.msg = hook.req.body

\* the request has caused no sink call and no change of the store
NoEffect == sent["hook"] = <<>> /\ txn["hook"] = NoTxn /\ db = hook.db0

\* C21 (SpecHook): when a secret is configured and the signature header does not
\* verify against the raw body, the handler answers 401 at once, calls the sink for
\* nobody and leaves the store as it was.
C21_BadSignatureIs401 ==
    (Handling /\ hook.req.secret # "" /\ ~HeaderMatches)
    => (hook.pc = "respond" /\ hook.status = 401 /\ NoEffect)

\* C22 (SpecHook): with a configured secret the signature check succeeds exactly
\* when the header is "sha256=" followed by the hex HMAC-SHA256 of the received
\* raw body under that secret; the header computed for a body that differs in one
\* byte is refused.
C22_VerifiesExactlyTheRawBody ==
    (Handling /\ hook.req.secret # "")
    => /\ (hook.verified = "True") <=> HeaderMatches
       /\ (hook.req.signature.mac.msg = OtherPad(hook.req.body)
              => hook.verified # "True" /\ hook.pc = "respond" /\ hook.status # 200)

C22_Witness ==
    /\ hook.pc = "respond"
    /\ hook.req.secret = "s"
    /\ hook.req.signature.prefix = "sha256="
    /\ hook.req.signature.hex = "lower"
    /\ hook.req.signature.ascii
    /\ hook.req.signature.mac = [key |-> "s", msg |-> OtherPad(hook.req.body)]
    /\ hook.verified = "False"
    /\ hook.status = 401

\* the body is not decodable as JSON, or its repository field is not an object
Malformed(body) ==
    \/ body.kind \in {"bytes", "text"}
    \/ body.kind = "object" /\ body.repository \in {"null", "string"}

\* C23 (SpecHook): a request that passes the signature check and whose body is
\* malformed is answered 400, never 5xx, with no sink call and no change of the
\* store.
C23_MalformedIs400 ==
    (Handling /\ hook.verified = "True" /\ Malformed(hook.req.body))
    => (hook.pc = "respond" /\ hook.status = 400 /\ NoEffect)

\* the body is a JSON object without a repository key: no repository, or a
\* repository object whose full_name is missing or empty
NoRepositoryKey(body) ==
    /\ body.kind = "object"
    /\ \/ body.repository = "absent"
       \/ body.repository = "object" /\ body.full_name \in {"absent", "empty"}

\* C24 (SpecHook): a request with a valid signature whose body is a JSON object
\* without a repository key is answered 400: no subscription is looked up, the
\* sink is called for nobody and the store stays as it was.
C24_NoRepositoryKeyIs400 ==
    (Handling /\ hook.verified = "True" /\ NoRepositoryKey(hook.req.body))
    => (hook.pc = "respond" /\ hook.status = 400 /\ hook.repos = <<>> /\ NoEffect)

C24_Witness ==
    /\ hook.pc = "respond"
    /\ hook.req.secret = "s"
    /\ hook.verified = "True"
    /\ hook.req.body.kind = "object"
    /\ hook.req.body.repository = "object"
    /\ hook.req.body.full_name = "empty"
    /\ hook.ev.repo = "o/r"
    /\ Subs(db, "o/r") # <<>>
    /\ hook.status = 400

\* the request passed the signature check and its body names a repository
Routed ==
    /\ Handling
    /\ hook.verified = "True"
    /\ hook.req.body.kind = "object"
    /\ hook.req.body.repository = "object"
    /\ hook.req.body.full_name = "set"

\* the mapping table of (event type, action) pairs: the actions of the event types
\* that have actions; push, watch and fork are mapped whatever the action
MappedActions ==
    [issues |-> {"opened", "closed"},
     issue_comment |-> {"created", "deleted"},
     pull_request |-> {"opened", "closed", "synchronize"},
     pull_request_review_comment |-> {"created", "deleted"},
     release |-> {"published", "released"}]

Unmapped(ev) ==
    /\ ev.type \notin {"push", "watch", "fork"}
    /\ ev.type \in DOMAIN MappedActions => ev.action \notin MappedActions[ev.type]

\* C25 (SpecHook): a verified, decodable webhook for a repository nobody is
\* subscribed to, or with an (event type, action) pair outside the mapping table,
\* is a no-op answered 200: no sink call, no change of the store.
C25_UntrackedOrUnmappedIsNoOp ==
    (Routed /\ (Subs(hook.db0, hook.ev.repo) = <<>> \/ Unmapped(hook.ev)))
    => /\ NoEffect
       /\ hook.pc \in {"dispatch", "respond"}
       /\ hook.pc = "respond" => hook.status = 200

C25_Witness ==
    /\ Routed
    /\ hook.pc = "respond"
    /\ hook.status = 200
    /\ hook.ev.type = "issues"
    /\ hook.ev.action = "reopened"
    /\ hook.repos # <<>>
    /\ sent["hook"] = <<>>

\* C26 (SpecHook): once a webhook has reached dispatch (valid signature,
\* repository key present, at least one subscription) the answer is 200,
\* whichever sink calls fail and even when the update of the last-seen state fails.
C26_Always200AfterDispatch ==
    (hook.pc = "respond" /\ hook.repos # <<>>) => hook.status = 200

\* a push for "o/r" whose send to chat 1 failed and whose update of
\* last_commit_sha was lost
C26_Witness ==
    /\ hook.pc = "respond"
    /\ hook.status = 200
    /\ hook.ev.type = "push"
    /\ hook.ev.commits # <<>>
    /\ \E i \in DOMAIN sent["hook"] : ~sent["hook"][i].ok
    /\ lim.io
    /\ \A i \in DOMAIN db.repositories :
          db.repositories[i].last_commit_sha # hook.ev.commits[1]

\* the request in hand is the one handled before, and the subscriptions of its
\* repository (subscribers and preferences) are what they were then
Replayed ==
    /\ hook.prev.req = hook.req
    /\ hook.prev.type = hook.ev.type
    /\ hook.prev.subs = Subs(hook.db0, hook.ev.repo)

\* C27 (SpecHook): handling the same request (body, signature, event type) twice,
\* the subscription preferences being the same both times, calls the sink for the
\* same subscribers and returns the same status, whatever happened in between
\* and whatever the last-seen markers are.
C27_ReplayGivesSameDispatch ==
    (hook.pc = "respond" /\ Replayed)
    => (SinkChats(sent["hook"]) = hook.prev.chats /\ hook.status = hook.prev.status)

\* the replay of a push that was sent to a subscriber and moved last_commit_sha
C27_Witness ==
    /\ hook.pc = "respond"
    /\ Replayed
    /\ hook.status = 200
    /\ hook.prev.chats # {}
    /\ hook.ev.type = "push"
    /\ \E i \in DOMAIN hook.db0.repositories :
          hook.db0.repositories[i].last_commit_sha = hook.ev.commits[1]

\* ------------------------------------------------------------ properties: subscriptions
\* the storage keys of the stored subscriptions are pairwise distinct
OnePerPair ==
    \A i, j \in 1..Len(db.repositories) :
        StorageKey(db.repositories[i]) = StorageKey(db.repositories[j]) => i = j

\* add_repository of the chat layer reads the store in this step and finds the pair
DuplicateAddLoads ==
    /\ txn["cmd"].op = "add"
    /\ txn["cmd"].stage = "load"
    /\ txn'["cmd"] # txn["cmd"]
    /\ <<txn["cmd"].repo, txn["cmd"].chat>> \in StorageKeys(db.repositories)

\* C28 (SpecSerial): after any sequence of subscribe and unsubscribe operations
\* the store holds at most one subscription per (repository, chat) pair, and
\* subscribing a pair that is already subscribed returns False without a save:
\* the store, with the record's preferences and last-seen markers, stays as it is.
C28_OneSubscriptionPerPair ==
    /\ []OnePerPair
    /\ [][DuplicateAddLoads
            => (cmdResult' = "False" /\ txn'["cmd"] = NoTxn /\ db' = db)]_vars

\* a second subscribe of a pair whose record has a preference on and a marker set
C28_Witness ==
    /\ txn["cmd"].op = "add"
    /\ txn["cmd"].stage = "load"
    /\ \E i \in 1..Len(db.repositories) :
          /\ StorageKey(db.repositories[i]) = <<txn["cmd"].repo, txn["cmd"].chat>>
          /\ db.repositories[i].events.commits
          /\ db.repositories[i].last_commit_sha # NoSha

\* remove_repository of the chat layer saves in this step
RemoveSaves ==
    /\ txn["cmd"].op = "remove"
    /\ txn["cmd"].stage = "save"
    /\ txn'["cmd"] = NoTxn

\* the stored subscriptions but the one of the pair, in store order
Others(repositories, repo_key, chat_id) ==
    SelectSeq(repositories, LAMBDA rec : <<rec.repo_key, rec.chat_id>> # <<repo_key, chat_id>>)

\* C29 (SpecSerial): unsubscribing removes the subscription of that (repository,
\* chat) pair only: every other subscription and all statistics, those of the
\* repository included, stay as they are, also when the last subscriber leaves.
C29_UnsubscribeRemovesOnlyThePair ==
    [][RemoveSaves
        => /\ db'.statistics = db.statistics
           /\ db'.repositories =
                 Others(db.repositories, txn["cmd"].repo, txn["cmd"].chat)
           /\ Len(db'.repositories) = Len(db.repositories) - 1]_vars

\* the last subscriber of "o/r" has left and the statistics of "o/r" are there
C29_Witness ==
    /\ cmdResult = "True"
    /\ get_repositories_by_repo_key(db, "o/r") = <<>>
    /\ "o/r" \in DOMAIN db.statistics

\* ------------------------------------------------------------ properties: no credentials
\* no token is configured
NoCredentials == pool.tokens = <<>>

\* C30 (SpecPool): with no configured credential there is no rotation:
\* get_available_token returns None, never a pair, the pool stays as constructed
\* whatever is called (switch_to_next_token included), and a client that is
\* created has no token, no token manager and starts with a quota of 60.
C30_NoCredentialsNoRotation ==
    NoCredentials
    => /\ selected.ret \in {"none", "None"}
       /\ selected.token = <<>>
       /\ pool = NewPool(<<>>)
       /\ client.pc # "none"
             => /\ client.token = <<>>
                /\ ~client.manager
                /\ client.remaining = RATE_LIMIT_WITHOUT_TOKEN
                /\ client.remaining = 60

\* get_available_token returned None and a command handler created its client
C30_Witness ==
    /\ NoCredentials
    /\ selected.ret = "None"
    /\ client.pc = "idle"
    /\ client.via = "command"
    /\ client.remaining = 60

\* ------------------------------------------------------------ properties: both producers
\* the newest commit of a push payload (SHAs are numbered in the order of creation)
NewestOf(commits) == CHOOSE c \in Range(commits) : \A other \in Range(commits) : other <= c

\* C31 (SpecSerial): once a push webhook with a non-empty commit list has been
\* handled for a repository with subscriptions, every subscription of the
\* repository holds the newest commit of that push as last_commit_sha, so that a
\* poll cycle whose page starts with that commit finds nothing new to send.
C31_PushMarksNewestCommit ==
    (/\ hook.pc = "respond"
     /\ hook.ev.type = "push"
     /\ hook.ev.commits # <<>>
     /\ hook.repos # <<>>)
        => AllStoredSha(hook.ev.repo, NewestOf(hook.ev.commits))

\* ------------------------------------------------------------ properties: the poll loop's quota
\* the step sends an HTTP request and receives its response
HttpStep == client.pc = "send" /\ client' # client /\ client'.http = client.http + 1

\* C32 (SpecChecks): once a response has reported remaining = 0 with a reset more
\* than RATE_LIMIT_WAIT_THRESHOLD seconds away for the poll loop's token, the poll
\* loop sends no HTTP request with that token before the reset time, in the same
\* repository check or in a later one.
C32_NoRequestWhileExhausted ==
    [][(/\ HttpStep
        /\ client.via = "poll"
        /\ client.reported.until # 0
        /\ client.reported.token = client.token)
          => now >= client.reported.until]_vars

\* C33 (SpecClient): every HTTP request of a poll-loop client carries the token
\* that get_available_token gives for the call (no subscription of these runs
\* has a token of its own).
C33_PollUsesSelectedToken ==
    [][(HttpStep /\ client.via = "poll")
          => /\ get_available_token(pool, client.t0).ret = "pair"
             /\ client.token = get_available_token(pool, client.t0).token]_vars

\* ------------------------------------------------------------ properties: one _request call
\* C34 (SpecClient): a _request call sends at most two HTTP requests: once it
\* has received its second response it returns, without a sleep and without
\* another request, whatever the responses were.
C34_AtMostTwoRequests ==
    client.pc \in {"enter", "presleep", "send", "postsleep"} => client.http < 2

\* ------------------------------------------------------------ properties: stats per token
\* the stats dict the TokenManager holds for the token at position i of the list
StatsAt(pl, i) ==
    IF _get_token_hash(pl.tokens[i]) \in DOMAIN pl.token_stats
    THEN pl.token_stats[_get_token_hash(pl.tokens[i])]
    ELSE EmptyStats

\* C35 (SpecPool): update_token_stats for one token changes the stats of that
\* token only: every configured token for which nothing was recorded in the step
\* keeps its stats dict and its wait time, whatever prefix it shares with the
\* token that was recorded.
C35_StatsOfOtherTokensKept ==
    [][\A i \in Positions :
          recorded'[i] = recorded[i] =>
             /\ StatsAt(pool', i) = StatsAt(pool, i)
             /\ WaitAt(pool', i - 1, now) = WaitAt(pool, i - 1, now)]_vars

\* ------------------------------------------------------------ properties: markers per repository
\* C36 (SpecSerial): in every reachable state the subscriptions of one repository
\* all hold the same last_commit_sha and the same last_star_count.
C36_MarkersSharedPerRepository ==
    \A r \in Repos :
        \A i, j \in DOMAIN StoredRecs(r) :
            /\ StoredRecs(r)[i].last_commit_sha = StoredRecs(r)[j].last_commit_sha
            /\ StoredRecs(r)[i].last_star_count = StoredRecs(r)[j].last_star_count

\* ------------------------------------------------------------ properties: fan-out of the poll
\* the subscription of the chat to repository r is in the store with its
\* preference key on
StoredOn(r, chat_id, key) ==
    \E i \in DOMAIN StoredRecs(r) :
        /\ StoredRecs(r)[i].chat_id = chat_id
        /\ TopPref(StoredRecs(r)[i].events, key)

\* C37 (Spec): when a poll cycle fans a commit batch or a star event out, every
\* sink call goes to a chat whose subscription is in the store at that moment
\* with the preference of the event kind on, however unsubscribe and toggle
\* operations interleave with the cycle.
C37_FanOutUsesCurrentSubscriptions ==
    [][/\ (poll.pc = "commits_send" /\ poll'.pc = "commits_persist")
            => \A k \in DOMAIN sent'["poll"] :
                  StoredOn(poll.cur, sent'["poll"][k].chat_id, "commits")
       /\ (poll.pc = "stars_send" /\ poll'.pc = "stars_persist")
            => \A k \in DOMAIN sent'["poll"] :
                  StoredOn(poll.cur, sent'["poll"][k].chat_id, "watch")]_vars

\* ------------------------------------------------------------ properties: failed reads
\* C38 (SpecHook): a save that writes what its store operation holds removes no
\* subscription and no statistics entry unless the operation is remove_repository
\* (which removes subscriptions only), also when a load of the operation failed.
C38_OnlyUnsubscribeRemoves ==
    [][\A p \in Procs :
          (/\ txn[p].stage = "save"
           /\ txn'[p].stage = "none"
           /\ db' = txn[p].db)
             => /\ txn[p].op # "remove"
                    => StorageKeys(db.repositories) \subseteq StorageKeys(db'.repositories)
                /\ DOMAIN db.statistics \subseteq DOMAIN db'.statistics]_vars

\* ------------------------------------------------------------ properties: failed upstream calls
\* the commit check got an empty page from get_commits
EmptyPageStep ==
    poll.pc = "commits" /\ poll'.pc \notin {"commits", "exited"} /\ poll'.commits = <<>>

\* the star check got 0 from get_star_count
ZeroStarsStep ==
    poll.pc = "stars" /\ poll'.pc \notin {"stars", "exited"} /\ poll'.stars = 0

\* update_statistics saves
StatsSave ==
    /\ txn["poll"].op = "stats"
    /\ txn["poll"].stage = "save"
    /\ txn'["poll"].stage = "none"

\* C39 (SpecLoop): a commit check whose get_commits returned [] and a star check
\* whose get_star_count returned 0 send nothing and start no store update; the
\* update_statistics that follows a get_statistics whose repository request
\* failed leaves the store as it was, and the one that follows a failed Search
\* API request leaves the stored issue count as it was.
C39_FailedCallChangesNothing ==
    [][/\ EmptyPageStep
            => /\ poll'.pc = "stars"
               /\ sent'["poll"] = <<>>
               /\ txn' = txn
               /\ db' = db
       /\ ZeroStarsStep
            => /\ poll'.pc = "stats"
               /\ sent'["poll"] = <<>>
               /\ txn' = txn
               /\ db' = db
       /\ (StatsSave /\ ~txn["poll"].status) => db' = db
       /\ (StatsSave /\ txn["poll"].status /\ txn["poll"].count = Absent)
            => db'.statistics[txn["poll"].repo]["issues"]
                 = db.statistics[txn["poll"].repo]["issues"]]_vars

\* ------------------------------------------------------------ properties: the tracked branch
\* C40 (SpecLoop): whenever a commit check is about to fetch, a successful
\* get_commits call of the poll loop returns the newest commits of the default
\* branch of the repository, whatever the branch is called.
C40_SamplesDefaultBranch ==
    poll.pc = "commits"
        => get_commits(lim.branch, upstream[poll.cur].commits, BranchDefault)
             = Page(upstream[poll.cur].commits)

====
